---------------------------- MODULE Spec2Model ----------------------------
(***************************************************************************)
(* A model of the podcast episode enrichment pipeline of rss_manager.py:   *)
(* the persisted episode store (state.json), the commands ingest, clean,   *)
(* tag, validate, fix and export that read or rewrite it, and the batch    *)
(* executor of clean and tag (a coordinator thread, worker tasks, one save *)
(* per batch).                                                             *)
(*                                                                         *)
(* Encoding of Python values.  TLC cannot compare values of different      *)
(* types, so every optional value is a tuple: None is << >> and a value x  *)
(* is <<x>>.  Strings the code inspects character by character (guids,     *)
(* descriptions, model replies, a string episode_number) are sequences of  *)
(* one-character strings; strings it only stores or compares (titles, tag  *)
(* names, dates, urls) are TLA+ strings.  A Python dict keeps insertion    *)
(* order and json keeps it too, so the episodes mapping is a sequence of   *)
(* episode records, searched by guid.                                      *)
(***************************************************************************)
EXTENDS Integers, Sequences, FiniteSets, TLC

VARIABLES
    file,       \* state.json: [ok |-> is it a complete JSON document, episodes |-> its episodes]
    taxonomy,   \* the taxonomy load_taxonomy() returns (taxonomy.json or the default)
    now,        \* the wall clock datetime.now() reads
    pc,         \* where the one running command is: "idle" when none runs
    cmd,        \* the command that runs, or ran last
    status,     \* how the last command ended: "none", "running", "done", "exit", "crashed", "interrupted"
    episodes,   \* the running command's in-memory episodes dict
    count,      \* new_count / cleaned_count / tagged_count / fixed_count of the command
    todo,       \* to_clean / to_tag: the eligible guids, in store order
    done,       \* how many guids of todo lie in batches whose save completed
    tasks,      \* guids of the submitted worker tasks that still run
    results,    \* results of completed tasks, in completion order, not yet collected
    fixes,      \* fixes_made of the last fix pass
    exported,   \* the array the command wrote to its export file, << >> when it wrote none
    search_api, \* search_api.py: the module global search_api, None or a SearchAPI object
    apps,       \* search_api.py: the applications create_app has returned, by their test_mode
    response,   \* search_api.py: the answer to the last request
    called,     \* search_api.py: the last request called retriever.search_with_metadata
    metadata,   \* search_api.py: file_ranges of <index_base>_metadata.json, None when the file is missing
    request,    \* history: the last request and the test_mode of the application it went to
    export_file,       \* transcribe.py: the array in the export file the runs are given
    processed_file,    \* transcribe.py: the transcribed list of the processed file, None when the file is missing
    unprocessed,       \* transcribe.py: the episodes load_episodes returned to the run
    episode_positions, \* transcribe.py: the pairs (guid, position) load_episodes returned
    main,              \* transcribe.py: where the run of main() is, its loop index and counters
    attempts,          \* history: the calls of transcribe_episode, by run, guid, number and result
    before,     \* history: state.json as it was when the command started
    feed,       \* history: the feed the command fetched (ingest), else NoFeed
    prompts,    \* history: the taxonomies the prompts of the run's tagging tasks were built from
    repeat      \* history: the command before this one was the same command on
                \* the same input, ran to its end, and nothing ran in between

vars == <<file, taxonomy, now, pc, cmd, status, episodes, count, todo, done,
          tasks, results, fixes, exported, search_api, apps, response, called, metadata,
          request, export_file, processed_file, unprocessed, episode_positions, main,
          attempts, before, feed, prompts, repeat>>

hist == <<before, feed, prompts, repeat>>

\* the state of the search service (search_api.py)
web == <<search_api, apps, response, called, metadata, request>>

\* the state of the transcription runner (transcribe.py)
runner == <<export_file, processed_file, unprocessed, episode_positions, main, attempts>>

-----------------------------------------------------------------------------
(* Optional values *)

None == << >>

Some(x) == <<x>>

IsNone(o) == Len(o) = 0

Get(o) == o[1]

-----------------------------------------------------------------------------
(* Bounds of the model *)

\* main() of transcribe.py is run at most MaxRuns times.
MaxRuns == 2

\* The clock takes the values 1..MaxClock.
MaxClock == 2

\* ingest is not run when the store would grow beyond MaxEpisodes episodes.
MaxEpisodes == 3

-----------------------------------------------------------------------------
(* Strings as character sequences *)

IsSpace(c) == c \in {" ", "\t", "\n"}

RECURSIVE LStrip(_)
LStrip(s) == IF s # << >> /\ IsSpace(Head(s)) THEN LStrip(Tail(s)) ELSE s

RECURSIVE RStrip(_)
RStrip(s) ==
    IF s # << >> /\ IsSpace(s[Len(s)]) THEN RStrip(SubSeq(s, 1, Len(s) - 1)) ELSE s

\* str.strip()
Strip(s) == RStrip(LStrip(s))

\* Python truth of a str: the empty string is false
Truthy(s) == s # << >>

-----------------------------------------------------------------------------
(* Tags as json.loads returns them *)

\* A category value that is absent from the tags object.
MissingCat == [k |-> "missing", items |-> << >>]

\* An episode_number that is absent from the tags object.
MissingNum == [k |-> "missing", n |-> 0, s |-> << >>]

\* episode["tags"] is None (as ingest stores it, or a reply that is JSON null)
NullTags ==
    [k |-> "null", Format |-> MissingCat, Theme |-> MissingCat,
     Track |-> MissingCat, episode_number |-> MissingNum]

\* the key "tags" is not in the episode (fix popped it)
AbsentTags == [NullTags EXCEPT !.k = "absent"]

\* episode.get("tags") is None
TagsIsNone(t) == t.k \in {"null", "absent"}

-----------------------------------------------------------------------------
(* state.json *)

\* load_state() of a missing file
EmptyFile == [ok |-> TRUE, episodes |-> << >>]

\* a file that open(STATE_FILE, 'w') truncated and json.dump has not finished
PartialFile == [ok |-> FALSE, episodes |-> << >>]

HasGuid(eps, g) == \E k \in 1..Len(eps) : eps[k].guid = g

IndexOf(eps, g) == CHOOSE k \in 1..Len(eps) : eps[k].guid = g

Guids(eps) == {eps[k].guid : k \in 1..Len(eps)}

\* datetime.now().isoformat()
Stamp == Some(now)


-----------------------------------------------------------------------------
(* The feed: what ET.fromstring(response.content) yields *)

\* item.find(tag) is None
NoElem == None

\* no feed was fetched
NoFeed == [status |-> "none", items |-> << >>]

\* item.find(tag) is an element whose .text is text (None for an empty element)
Elem(text) == Some(text)

\* elem.text if elem is not None else ""
TextOrEmpty(e, empty) == IF IsNone(e) THEN Some(empty) ELSE Get(e)

\* guid_elem is None or not guid_elem.text
GuidUnusable(e) == IsNone(e) \/ IsNone(Get(e)) \/ ~Truthy(Get(Get(e)))

\* the record ingest() builds for one feed item
NewEpisode(item, guid, t) ==
    [guid                |-> guid,
     title               |-> TextOrEmpty(item.title, ""),
     description         |-> TextOrEmpty(item.description, << >>),
     published_date      |-> TextOrEmpty(item.pubDate, ""),
     audio_url           |-> item.enclosure,
     cleaned_description |-> None,
     tags                |-> NullTags,
     ingested_at         |-> t,
     cleaned_at          |-> None,
     tagged_at           |-> None]

\* episodes[guid] = record
Put(eps, rec) ==
    IF HasGuid(eps, rec.guid) THEN [eps EXCEPT ![IndexOf(eps, rec.guid)] = rec]
    ELSE Append(eps, rec)

\* a variant of ingest that builds its dict from the feed alone and drops what
\* was loaded
RECURSIVE IngestItemsOver(_, _, _, _)
IngestItemsOver(eps, items, n, t) ==
    IF items = << >> THEN [episodes |-> eps, new_count |-> n]
    ELSE LET item == Head(items)
             guid == Strip(Get(Get(item.guid)))
         IN  IF GuidUnusable(item.guid) \/ HasGuid(eps, guid)
             THEN IngestItemsOver(eps, Tail(items), n, t)
             ELSE IngestItemsOver(Append(eps, NewEpisode(item, guid, t)), Tail(items), n + 1, t)

IngestItemsFresh(eps, items, n, t) == IngestItemsOver(<< >>, items, n, t)

\* a variant of the loop that looks the guid up before stripping it
RECURSIVE IngestItemsRaw(_, _, _, _)
IngestItemsRaw(eps, items, n, t) ==
    IF items = << >> THEN [episodes |-> eps, new_count |-> n]
    ELSE LET item == Head(items)
             guid == Strip(Get(Get(item.guid)))
         IN  IF GuidUnusable(item.guid) THEN IngestItemsRaw(eps, Tail(items), n, t)
             ELSE IF HasGuid(eps, Get(Get(item.guid)))
                  THEN IngestItemsRaw(eps, Tail(items), n, t)
             ELSE IngestItemsRaw(Put(eps, NewEpisode(item, guid, t)), Tail(items), n + 1, t)

\* a variant of the loop that refreshes title and description of a known guid
RECURSIVE IngestItemsRefresh(_, _, _, _)
IngestItemsRefresh(eps, items, n, t) ==
    IF items = << >> THEN [episodes |-> eps, new_count |-> n]
    ELSE LET item == Head(items)
             guid == Strip(Get(Get(item.guid)))
             k    == IndexOf(eps, guid)
         IN  IF GuidUnusable(item.guid) THEN IngestItemsRefresh(eps, Tail(items), n, t)
             ELSE IF HasGuid(eps, guid)
                  THEN IngestItemsRefresh(
                           [eps EXCEPT ![k].title = TextOrEmpty(item.title, ""),
                                       ![k].description = TextOrEmpty(item.description, << >>)],
                           Tail(items), n, t)
             ELSE IngestItemsRefresh(Append(eps, NewEpisode(item, guid, t)), Tail(items), n + 1, t)

\* a variant of the loop that counts every item it reads a guid from
RECURSIVE IngestItemsCounted(_, _, _, _)
IngestItemsCounted(eps, items, n, t) ==
    IF items = << >> THEN [episodes |-> eps, new_count |-> n]
    ELSE LET item == Head(items)
             guid == Strip(Get(Get(item.guid)))
         IN  IF GuidUnusable(item.guid) THEN IngestItemsCounted(eps, Tail(items), n, t)
             ELSE IF HasGuid(eps, guid) THEN IngestItemsCounted(eps, Tail(items), n + 1, t)
             ELSE IngestItemsCounted(Append(eps, NewEpisode(item, guid, t)), Tail(items),
                                     n + 1, t)

\* the loop of ingest() over channel.findall('item'): the episodes and new_count
RECURSIVE IngestItems(_, _, _, _)
IngestItems(eps, items, n, t) ==
    IF items = << >> THEN [episodes |-> eps, new_count |-> n]
    ELSE LET item == Head(items)
             guid == Strip(Get(Get(item.guid)))
         IN  IF GuidUnusable(item.guid) THEN IngestItems(eps, Tail(items), n, t)
             ELSE IF HasGuid(eps, guid) THEN IngestItems(eps, Tail(items), n, t)
             ELSE IngestItems(Append(eps, NewEpisode(item, guid, t)), Tail(items), n + 1, t)

-----------------------------------------------------------------------------
(* Starting and ending a command *)

\* a command starts: nothing of an earlier run is left in memory
Start(c, f) ==
    /\ pc = "idle"
    /\ cmd' = c
    /\ before' = file
    /\ feed' = f
    /\ prompts' = {}
    /\ repeat' = (cmd = c /\ status = "done" /\ feed = f)
    /\ UNCHANGED <<web, runner>>

\* the command ends with status st; its memory is gone
End(st) ==
    /\ pc' = "idle"
    /\ status' = st
    /\ episodes' = << >>
    /\ todo' = << >>
    /\ done' = 0
    /\ tasks' = {}
    /\ results' = << >>

\* the process is killed from outside (SIGKILL, power loss) at any point of a run
Interrupt ==
    /\ pc # "idle"
    /\ End("interrupted")
    /\ UNCHANGED <<file, taxonomy, now, cmd, count, fixes>>
    /\ UNCHANGED <<hist, exported, web, runner>>

\* time passes
Tick ==
    /\ now < MaxClock
    /\ now' = now + 1
    /\ UNCHANGED <<file, taxonomy, pc, cmd, status, episodes, count, todo, done,
                   tasks, results, fixes>>
    /\ UNCHANGED <<hist, exported, web, runner>>

-----------------------------------------------------------------------------
(* ingest *)

\* ingest(): hasUrl is whether RSS_FEED_URL is set, feed what the fetch returns
Ingest(hasUrl, feed_) ==
    /\ Start("ingest", feed_)
    /\ IF ~hasUrl THEN
            \* sys.exit(1)
            /\ End("exit")
            /\ UNCHANGED <<file, count>>
       ELSE IF feed_.status = "error" THEN
            \* requests.get or raise_for_status or ET.fromstring raises
            /\ End("crashed")
            /\ UNCHANGED <<file, count>>
       ELSE IF feed_.status = "nochannel" THEN
            /\ End("exit")
            /\ UNCHANGED <<file, count>>
       ELSE IF ~file.ok THEN
            \* load_state(): json.load raises JSONDecodeError
            /\ End("crashed")
            /\ UNCHANGED <<file, count>>
       ELSE LET r == IngestItems(file.episodes, feed_.items, 0, Stamp)
            IN  /\ Len(r.episodes) <= MaxEpisodes
                /\ episodes' = r.episodes
                /\ count' = r.new_count
                /\ pc' = "save"
                /\ status' = "running"
                /\ UNCHANGED <<file, todo, done, tasks, results>>
    /\ fixes' = << >>
    /\ exported' = << >>
    /\ UNCHANGED <<taxonomy, now>>


-----------------------------------------------------------------------------
(* save_state *)

\* the batch width of clean() and tag(): 10 in the source, scaled down here so
\* that a run of a few episodes has more than one batch
BatchWidth == 2

Min(a, b) == IF a < b THEN a ELSE b

\* a variant of the batch slice that takes every guid that is left
BatchAll(list, i) == SubSeq(list, i + 1, Len(list))

\* the guids of the batch to_clean[i:i+10] that starts after `done` guids
Batch(list, i) == SubSeq(list, i + 1, Min(i + BatchWidth, Len(list)))

SeqToSet(q) == {q[k] : k \in 1..Len(q)}

\* a variant of save_state's first step that saves only after the last batch
SaveOpenAtEnd ==
    /\ pc = "save"
    /\ IF cmd \in {"clean", "tag"} /\ done + BatchWidth < Len(todo)
       THEN /\ done' = done + BatchWidth
            /\ pc' = "submit"
            /\ UNCHANGED file
       ELSE /\ file' = [ok |-> FALSE, episodes |-> << >>]
            /\ pc' = "write"
            /\ UNCHANGED done
    /\ UNCHANGED <<taxonomy, now, cmd, status, episodes, count, todo,
                   tasks, results, fixes>>
    /\ UNCHANGED <<hist, exported, web, runner>>

\* open(STATE_FILE, 'w'): the file is truncated before anything is written
SaveOpen ==
    /\ pc = "save"
    /\ file' = PartialFile
    /\ pc' = "write"
    /\ UNCHANGED <<taxonomy, now, cmd, status, episodes, count, todo, done,
                   tasks, results, fixes>>
    /\ UNCHANGED <<hist, exported, web, runner>>

\* json.dump completes and the file is closed; the command goes on after its save
SaveWrite ==
    /\ pc = "write"
    /\ file' = [ok |-> TRUE, episodes |-> episodes]
    /\ IF cmd \in {"clean", "tag"} /\ done + BatchWidth < Len(todo) THEN
            \* the next round of `for i in range(0, len(to_clean), 10)`
            /\ done' = done + BatchWidth
            /\ pc' = "submit"
            /\ UNCHANGED <<status, episodes, todo, tasks, results>>
       ELSE End("done")
    /\ UNCHANGED <<taxonomy, now, cmd, count, fixes>>
    /\ UNCHANGED <<hist, exported, web, runner>>

-----------------------------------------------------------------------------
(* clean *)

\* re.sub('<[^<]+?>', '', s): the end of the match that starts at s[1] = "<"
TagEnds(s) ==
    {j \in 3..Len(s) : s[j] = ">" /\ \A m \in 2..(j - 1) : s[m] # "<"}

SetMin(S) == CHOOSE x \in S : \A y \in S : x <= y

RECURSIVE StripMarkup(_)
StripMarkup(s) ==
    IF s = << >> THEN << >>
    ELSE IF Head(s) = "<" /\ TagEnds(s) # {}
         THEN StripMarkup(SubSeq(s, SetMin(TagEnds(s)) + 1, Len(s)))
         ELSE <<Head(s)>> \o StripMarkup(Tail(s))

IsPrefix(p, s) == Len(p) <= Len(s) /\ SubSeq(s, 1, Len(p)) = p

\* s.replace(old, new)
RECURSIVE Replace(_, _, _)
Replace(s, old, new) ==
    IF s = << >> THEN << >>
    ELSE IF IsPrefix(old, s)
         THEN new \o Replace(SubSeq(s, Len(old) + 1, Len(s)), old, new)
         ELSE <<Head(s)>> \o Replace(Tail(s), old, new)

\* the chained replace calls of clean_episode, in the source's order
DecodeEntities(s) ==
    LET a == Replace(s, <<"&", "a", "m", "p", ";">>, <<"&">>)
        b == Replace(a, <<"&", "l", "t", ";">>, <<"<">>)
        c == Replace(b, <<"&", "g", "t", ";">>, <<">">>)
        d == Replace(c, <<"&", "q", "u", "o", "t", ";">>, <<"\"">>)
    IN  Replace(d, <<"&", "#", "3", "9", ";">>, <<"'">>)

\* ' '.join(text.split())
RECURSIVE JoinWords(_)
JoinWords(s) ==
    IF s = << >> THEN << >>
    ELSE IF IsSpace(Head(s))
         THEN IF LStrip(s) = << >> THEN << >> ELSE <<" ">> \o JoinWords(LStrip(s))
         ELSE <<Head(s)>> \o JoinWords(Tail(s))

\* the basic HTML cleaning of clean_episode
BasicClean(description) == JoinWords(LStrip(DecodeEntities(StripMarkup(description))))

\* what a worker task hands back through its future
TaskRaised(g) ==
    [guid |-> g, raised |-> TRUE, error |-> FALSE, text |-> << >>, tags |-> NullTags]

CleanResult(g, text, err) ==
    [guid |-> g, raised |-> FALSE, error |-> err, text |-> text, tags |-> NullTags]

TagResult(g, tags, err) ==
    [guid |-> g, raised |-> FALSE, error |-> err, text |-> << >>, tags |-> tags]

\* clean_episode(guid) with the model call answering llm:
\* [ok |-> the call returned, content |-> message.content].
\* re.sub raises TypeError on a None description, outside the try.
clean_episode(eps, g, llm) ==
    LET episode == eps[IndexOf(eps, g)]
    IN  IF IsNone(episode.description) THEN TaskRaised(g)
        ELSE LET text == BasicClean(Get(episode.description))
             IN  IF llm.ok /\ ~IsNone(llm.content)
                 THEN CleanResult(g, Strip(Get(llm.content)), FALSE)
                 ELSE CleanResult(g, text, TRUE)

\* the guids of a list of episodes, in its order
GuidsOf(eps) == [k \in 1..Len(eps) |-> eps[k].guid]

NeedsClean(e) == IsNone(e.cleaned_description)

NeedsTag(e) == TagsIsNone(e.tags) /\ ~IsNone(e.cleaned_description)

\* a variant of the selection of clean() that takes every episode of the store
ToCleanAll(eps) == GuidsOf(eps)

\* to_clean as clean() collects it
ToClean(eps) == GuidsOf(SelectSeq(eps, NeedsClean))

\* a variant of the selection of tag() that does not look at cleaned_description
ToTagUncleaned(eps) ==
    LET NoTags(e) == TagsIsNone(e.tags) IN GuidsOf(SelectSeq(eps, NoTags))

\* to_tag as tag() collects it
ToTag(eps) == GuidsOf(SelectSeq(eps, NeedsTag))

\* a variant of clean() that writes an empty store before it checks the key
CleanStartResets(hasKey) ==
    /\ Start("clean", NoFeed)
    /\ IF ~hasKey THEN
            /\ End("exit")
            /\ file' = EmptyFile
            /\ UNCHANGED count
       ELSE IF ~file.ok \/ ToClean(file.episodes) = << >> THEN
            /\ End(IF file.ok THEN "done" ELSE "crashed")
            /\ UNCHANGED <<count, file>>
       ELSE /\ episodes' = file.episodes
            /\ todo' = ToClean(file.episodes)
            /\ done' = 0
            /\ count' = 0
            /\ pc' = "submit"
            /\ status' = "running"
            /\ UNCHANGED <<tasks, results, file>>
    /\ fixes' = << >>
    /\ exported' = << >>
    /\ UNCHANGED <<taxonomy, now>>

\* clean() up to its batch loop; hasKey is whether OPENAI_API_KEY is set
CleanStart(hasKey) ==
    /\ Start("clean", NoFeed)
    /\ IF ~hasKey THEN
            /\ End("exit")
            /\ UNCHANGED count
       ELSE IF ~file.ok THEN
            /\ End("crashed")
            /\ UNCHANGED count
       ELSE IF ToClean(file.episodes) = << >> THEN
            \* "No episodes to clean": return without saving
            /\ End("done")
            /\ UNCHANGED count
       ELSE /\ episodes' = file.episodes
            /\ todo' = ToClean(file.episodes)
            /\ done' = 0
            /\ count' = 0
            /\ pc' = "submit"
            /\ status' = "running"
            /\ UNCHANGED <<tasks, results>>
    /\ fixes' = << >>
    /\ exported' = << >>
    /\ UNCHANGED <<file, taxonomy, now>>

\* futures = {executor.submit(f, guid): guid for guid in batch}
Submit ==
    /\ pc = "submit"
    /\ tasks' = SeqToSet(Batch(todo, done))
    /\ pc' = "collect"
    /\ UNCHANGED <<file, taxonomy, now, cmd, status, episodes, count, todo, done,
                   results, fixes>>
    /\ UNCHANGED <<hist, exported, web, runner>>

\* a variant of the worker that writes its result into the shared store itself
CleanTaskWrites(g, llm) ==
    /\ cmd = "clean"
    /\ g \in tasks
    /\ tasks' = tasks \ {g}
    /\ results' = Append(results, clean_episode(episodes, g, llm))
    /\ episodes' = [episodes EXCEPT ![IndexOf(episodes, g)].cleaned_description =
                       Some(clean_episode(episodes, g, llm).text)]
    /\ UNCHANGED <<file, taxonomy, now, pc, cmd, status, count, todo, done, fixes>>
    /\ UNCHANGED <<hist, exported, web, runner>>

\* a worker thread runs clean_episode to its end
CleanTask(g, llm) ==
    /\ cmd = "clean"
    /\ g \in tasks
    /\ tasks' = tasks \ {g}
    /\ results' = Append(results, clean_episode(episodes, g, llm))
    /\ UNCHANGED <<file, taxonomy, now, pc, cmd, status, episodes, count, todo,
                   done, fixes>>
    /\ UNCHANGED <<hist, exported, web, runner>>

\* episode.get("title", "")[:60] raises TypeError on a None title
TitleRaises(e) == IsNone(e.title)

\* a variant of the coordinator that saves as soon as it has applied a result
AfterCollectFirst == "save"

\* after the last future of the batch the coordinator goes on to save_state
AfterCollect == IF tasks = {} /\ Len(results) = 1 THEN "save" ELSE "collect"

\* a variant of the coordinator of clean() that stores nothing for a failed call
CleanCollectSkipsFailed ==
    /\ cmd = "clean"
    /\ pc = "collect"
    /\ results # << >>
    /\ LET r == Head(results)
           k == IndexOf(episodes, r.guid)
       IN  IF r.raised \/ TitleRaises(episodes[k]) THEN
                /\ End("crashed")
                /\ UNCHANGED count
           ELSE /\ IF r.error
                   THEN UNCHANGED <<episodes, count>>
                   ELSE /\ episodes' = [episodes EXCEPT
                                           ![k].cleaned_description = Some(r.text),
                                           ![k].cleaned_at = Stamp]
                        /\ count' = count + 1
                /\ results' = Tail(results)
                /\ pc' = AfterCollect
                /\ UNCHANGED <<status, todo, done, tasks>>
    /\ UNCHANGED <<file, taxonomy, now, cmd, fixes>>
    /\ UNCHANGED <<hist, exported, web, runner>>

\* one round of `for future in as_completed(futures)` in clean()
CleanCollect ==
    /\ cmd = "clean"
    /\ pc = "collect"
    /\ results # << >>
    /\ LET r == Head(results)
           k == IndexOf(episodes, r.guid)
       IN  IF r.raised \/ TitleRaises(episodes[k]) THEN
                \* future.result() re-raises, or the title slice raises: clean() dies
                /\ End("crashed")
                /\ UNCHANGED count
           ELSE /\ episodes' = [episodes EXCEPT ![k].cleaned_description = Some(r.text),
                                                ![k].cleaned_at = Stamp]
                /\ count' = count + 1
                /\ results' = Tail(results)
                /\ pc' = AfterCollect
                /\ UNCHANGED <<status, todo, done, tasks>>
    /\ UNCHANGED <<file, taxonomy, now, cmd, fixes>>
    /\ UNCHANGED <<hist, exported, web, runner>>


-----------------------------------------------------------------------------
(* tag *)

\* json.loads(content).  A reply is kept as what it parses to: content.kind is
\* "json" with the parsed value, or "notjson" for text json.loads rejects.
JsonLoadsRaises(content) == content.kind # "json"

JsonLoads(content) == content.value

\* `if content:` -- None and "" are false
ContentTruthy(content) == content.kind \notin {"none", "empty"}

\* tag_episode(guid) with the model call answering llm:
\* [ok |-> the call returned, content |-> message.content]
tag_episode(eps, g, llm) ==
    IF ~llm.ok THEN TagResult(g, NullTags, TRUE)
    ELSE IF ~ContentTruthy(llm.content) THEN TagResult(g, NullTags, TRUE)
    ELSE IF JsonLoadsRaises(llm.content) THEN TagResult(g, NullTags, TRUE)
    ELSE TagResult(g, JsonLoads(llm.content), FALSE)

\* tag() up to its batch loop
TagStart(hasKey) ==
    /\ Start("tag", NoFeed)
    /\ IF ~hasKey THEN
            /\ End("exit")
            /\ UNCHANGED count
       ELSE IF ~file.ok THEN
            /\ End("crashed")
            /\ UNCHANGED count
       ELSE IF ToTag(file.episodes) = << >> THEN
            \* "No episodes to tag": return without saving
            /\ End("done")
            /\ UNCHANGED count
       ELSE /\ episodes' = file.episodes
            /\ todo' = ToTag(file.episodes)
            /\ done' = 0
            /\ count' = 0
            /\ pc' = "submit"
            /\ status' = "running"
            /\ UNCHANGED <<tasks, results>>
    /\ fixes' = << >>
    /\ exported' = << >>
    /\ UNCHANGED <<file, taxonomy, now>>

\* a worker thread runs tag_episode to its end
TagTask(g, llm) ==
    /\ cmd = "tag"
    /\ g \in tasks
    /\ tasks' = tasks \ {g}
    /\ results' = Append(results, tag_episode(episodes, g, llm))
    \* construct_prompt(title, description) calls load_taxonomy()
    /\ prompts' = prompts \cup {taxonomy}
    /\ UNCHANGED <<file, taxonomy, now, pc, cmd, status, episodes, count, todo,
                   done, fixes>>
    /\ UNCHANGED <<before, feed, repeat, exported, web, runner>>

\* one round of `for future in as_completed(futures)` in tag()
TagCollect ==
    /\ cmd = "tag"
    /\ pc = "collect"
    /\ results # << >>
    /\ LET r == Head(results)
           k == IndexOf(episodes, r.guid)
       IN  IF r.raised \/ TitleRaises(episodes[k]) THEN
                /\ End("crashed")
                /\ UNCHANGED count
           ELSE /\ IF r.error
                   THEN UNCHANGED <<episodes, count>>
                   ELSE /\ episodes' = [episodes EXCEPT ![k].tags = r.tags,
                                                        ![k].tagged_at = Stamp]
                        /\ count' = count + 1
                /\ results' = Tail(results)
                /\ pc' = AfterCollect
                /\ UNCHANGED <<status, todo, done, tasks>>
    /\ UNCHANGED <<file, taxonomy, now, cmd, fixes>>
    /\ UNCHANGED <<hist, exported, web, runner>>


\* generate-taxonomy, run by another process, has written a new taxonomy.json:
\* json.dump(taxonomy, f) of generate_taxonomy() completes
GenerateTaxonomy(tax) ==
    /\ tax # taxonomy
    /\ taxonomy' = tax
    /\ UNCHANGED <<file, now, pc, cmd, status, episodes, count, todo, done,
                   tasks, results, fixes>>
    /\ UNCHANGED <<hist, exported, web, runner>>

-----------------------------------------------------------------------------
(* Tag values.  A category value is a list of items, a string, or something   *)
(* else; an item is a string or something else.                              *)

Str(x) == [k |-> "str", s |-> x]

\* a list element that is no string but hashable (a number, null)
OtherItem == [k |-> "other", s |-> ""]

\* a list element that is unhashable (a nested list or object)
UnhashableItem == [k |-> "unhashable", s |-> ""]

List(items) == [k |-> "list", items |-> items]

StrVal(x) == [k |-> "str", items |-> <<Str(x)>>]

\* a category value that is neither a list nor a str
OtherVal == [k |-> "other", items |-> << >>]

NullNum == [k |-> "null", n |-> 0, s |-> << >>]

IntNum(n) == [k |-> "int", n |-> n, s |-> << >>]

\* a str episode_number, as its characters
StrNum(cs) == [k |-> "str", n |-> 0, s |-> cs]

\* an episode_number of another type: "bool" (an int to isinstance), "float", "other"
KindNum(kind) == [k |-> kind, n |-> 0, s |-> << >>]

Obj(f, th, tr, num) ==
    [k |-> "obj", Format |-> f, Theme |-> th, Track |-> tr, episode_number |-> num]

\* a reply that parses to JSON that is neither an object nor null
NonObjTags == [NullTags EXCEPT !.k = "other"]

Categories == <<"Format", "Theme", "Track">>

\* tags[category] by name
Cat(t, c) == IF c = "Format" THEN t.Format ELSE IF c = "Theme" THEN t.Theme ELSE t.Track

\* taxonomy[category] by name
Allowed(tax, c) ==
    IF c = "Format" THEN tax.Format ELSE IF c = "Theme" THEN tax.Theme ELSE tax.Track

\* x in taxonomy[category]
InTaxonomy(item, allowed) == item.k = "str" /\ item.s \in allowed

\* a subset of DEFAULT_TAXONOMY, enough to tell members from non-members
DefaultTaxonomy ==
    [Format |-> {"Series Episodes", "Standalone Episodes"},
     Theme  |-> {"Military History & Battles"},
     Track  |-> {"Roman Track"}]

-----------------------------------------------------------------------------
(* validate_episode_tags *)

Err(rule, field) == [rule |-> rule, field |-> field]

\* isinstance(num, int): bool is a subclass of int
IsInt(num) == num.k \in {"int", "bool"}

\* the errors validate_episode_tags appends for one category
CategoryErrors(t, tax, c) ==
    LET v == Cat(t, c)
    IN  IF v.k = "missing" THEN << >>
        ELSE IF v.k # "list" THEN <<Err("must be a list", c)>>
        ELSE (IF \E j \in 1..Len(v.items) : ~InTaxonomy(v.items[j], Allowed(tax, c))
              THEN <<Err("invalid tags", c)>> ELSE << >>)
             \o (IF v.items = << >> THEN <<Err("cannot be empty", c)>> ELSE << >>)

\* validate_episode_tags(tags, taxonomy) raises: tags.keys() on a non-dict, or
\* set(cat_tags) on a list with an unhashable element
ValidateRaises(t, tax) ==
    \/ t.k # "obj"
    \/ \E i \in 1..Len(Categories) :
          LET v == Cat(t, Categories[i])
          IN  v.k = "list" /\ \E j \in 1..Len(v.items) : v.items[j].k = "unhashable"

\* validate_episode_tags(tags, taxonomy): the list of errors, when it does not raise
validate_episode_tags(t, tax) ==
    (IF \/ \E i \in 1..Len(Categories) : Cat(t, Categories[i]).k = "missing"
        \/ t.episode_number.k = "missing"
     THEN <<Err("missing fields", "")>> ELSE << >>)
    \o CategoryErrors(t, tax, "Format")
    \o CategoryErrors(t, tax, "Theme")
    \o CategoryErrors(t, tax, "Track")
    \o (IF t.episode_number.k \notin {"missing", "null"} /\ ~IsInt(t.episode_number)
        THEN <<Err("must be int or null", "episode_number")>> ELSE << >>)


-----------------------------------------------------------------------------
(* fix *)

Fx(what, field) == [fix |-> what, field |-> field]

SetCat(t, c, v) ==
    IF c = "Format" THEN [t EXCEPT !.Format = v]
    ELSE IF c = "Theme" THEN [t EXCEPT !.Theme = v]
    ELSE [t EXCEPT !.Track = v]

\* [x for x in items if x in taxonomy[category]]
ValidItems(items, allowed) ==
    LET Keep(x) == InTaxonomy(x, allowed) IN SelectSeq(items, Keep)

\* the characters str.isdigit() accepts: the ASCII digits and, standing for the
\* other Unicode digits, superscript two (written "^2"), which int() rejects
AsciiDigits == <<"0", "1", "2", "3", "4", "5", "6", "7", "8", "9">>

IsAsciiDigit(c) == \E d \in 1..Len(AsciiDigits) : AsciiDigits[d] = c

IsDigitChar(c) == IsAsciiDigit(c) \/ c = "^2"

\* num.isdigit()
IsDigit(cs) == cs # << >> /\ \A j \in 1..Len(cs) : IsDigitChar(cs[j])

\* int(num) raises ValueError
IntRaises(cs) == \E j \in 1..Len(cs) : ~IsAsciiDigit(cs[j])

DigitValue(c) == (CHOOSE d \in 1..Len(AsciiDigits) : AsciiDigits[d] = c) - 1

\* int(num) of a string of ASCII digits
RECURSIVE ParseInt(_)
ParseInt(cs) ==
    IF cs = << >> THEN 0
    ELSE ParseInt(SubSeq(cs, 1, Len(cs) - 1)) * Len(AsciiDigits) + DigitValue(cs[Len(cs)])

\* "Fix missing required fields": episode_number
FixMissingNumber(p) ==
    IF p.t.episode_number.k = "missing"
    THEN [t |-> [p.t EXCEPT !.episode_number = NullNum],
          fixes |-> Append(p.fixes, Fx("added", "episode_number"))]
    ELSE p

\* "Fix missing required fields": one category
FixMissingCategory(p, c) ==
    IF Cat(p.t, c).k = "missing"
    THEN [t |-> SetCat(p.t, c, List(<< >>)), fixes |-> Append(p.fixes, Fx("added empty", c))]
    ELSE p

\* a variant of "Fix Format issues" that compares the lists by identity, so
\* that it always records a removal
FixFormatAlways(p, tax) ==
    LET v       == p.t.Format
        formats == IF v.k = "list" THEN v.items
                   ELSE IF v.k = "str" THEN v.items
                   ELSE <<Str("Standalone Episodes")>>
        p1      == IF v.k = "list" THEN p
                   ELSE [t |-> [p.t EXCEPT !.Format = List(formats)],
                         fixes |-> Append(p.fixes, Fx("converted to list", "Format"))]
        valid   == ValidItems(formats, tax.Format)
    IN  [t |-> [p1.t EXCEPT !.Format =
                   List(IF valid # << >> THEN valid ELSE <<Str("Standalone Episodes")>>)],
         fixes |-> Append(p1.fixes, Fx("removed invalid tags", "Format"))]

\* "Fix Format issues"
FixFormat(p, tax) ==
    LET v       == p.t.Format
        formats == IF v.k = "list" THEN v.items
                   ELSE IF v.k = "str" THEN v.items
                   ELSE <<Str("Standalone Episodes")>>
        p1      == IF v.k = "list" THEN p
                   ELSE [t |-> [p.t EXCEPT !.Format = List(formats)],
                         fixes |-> Append(p.fixes, Fx("converted to list", "Format"))]
        valid   == ValidItems(formats, tax.Format)
    IN  IF Len(valid) # Len(formats)
        THEN [t |-> [p1.t EXCEPT !.Format =
                        List(IF valid # << >> THEN valid ELSE <<Str("Standalone Episodes")>>)],
              fixes |-> Append(p1.fixes, Fx("removed invalid tags", "Format"))]
        ELSE p1

\* "Fix Theme and Track": one of the two
FixThemeOrTrack(p, tax, c) ==
    LET v == Cat(p.t, c)
    IN  IF v.k # "list"
        THEN [t |-> SetCat(p.t, c, List(IF v.k = "str" THEN v.items ELSE << >>)),
              fixes |-> Append(p.fixes, Fx("converted to list", c))]
        ELSE LET valid == ValidItems(v.items, Allowed(tax, c))
             IN  IF Len(valid) # Len(v.items)
                 THEN [t |-> SetCat(p.t, c, List(valid)),
                       fixes |-> Append(p.fixes, Fx("removed invalid tags", c))]
                 ELSE p

\* "Fix episode_number type"
FixNumber(p) ==
    LET num == p.t.episode_number
    IN  IF num.k = "str" /\ IsDigit(num.s)
        THEN [t |-> [p.t EXCEPT !.episode_number = IntNum(ParseInt(num.s))],
              fixes |-> Append(p.fixes, Fx("converted to int", "episode_number"))]
        ELSE IF num.k # "null" /\ ~IsInt(num)
        THEN [t |-> [p.t EXCEPT !.episode_number = NullNum],
              fixes |-> Append(p.fixes, Fx("reset invalid", "episode_number"))]
        ELSE p

\* the correction steps of fix() on one tags object, before its validation
FixSteps(t, tax) ==
    LET p0 == [t |-> t, fixes |-> << >>]
        p1 == FixMissingNumber(p0)
        p2 == FixMissingCategory(p1, "Format")
        p3 == FixMissingCategory(p2, "Theme")
        p4 == FixMissingCategory(p3, "Track")
        p5 == FixFormat(p4, tax)
        p6 == FixThemeOrTrack(p5, tax, "Theme")
        p7 == FixThemeOrTrack(p6, tax, "Track")
    IN  FixNumber(p7)

\* a variant of the last step that keeps tags that still have errors
DeleteIfInvalidKeep(e, p, tax) == [episode |-> [e EXCEPT !.tags = p.t], fixes |-> p.fixes]

\* a variant of the last step that removes the tags but leaves their timestamp
DeleteIfInvalidKeepStamp(e, p, tax) ==
    IF validate_episode_tags(p.t, tax) # << >>
    THEN [episode |-> [e EXCEPT !.tags = AbsentTags],
          fixes |-> <<Fx("DELETED ALL TAGS", "")>>]
    ELSE [episode |-> [e EXCEPT !.tags = p.t], fixes |-> p.fixes]

\* "After all fixes, validate and delete if still invalid"
DeleteIfInvalid(e, p, tax) ==
    IF validate_episode_tags(p.t, tax) # << >>
    THEN [episode |-> [e EXCEPT !.tags = AbsentTags, !.tagged_at = None],
          fixes |-> <<Fx("DELETED ALL TAGS", "")>>]
    ELSE [episode |-> [e EXCEPT !.tags = p.t], fixes |-> p.fixes]

\* the body of fix()'s loop for one episode: the episode and its episode_fixes
FixEpisode(e, tax) ==
    IF TagsIsNone(e.tags) THEN [episode |-> e, fixes |-> << >>]
    ELSE DeleteIfInvalid(e, FixSteps(e.tags, tax), tax)

\* the body of fix()'s loop raises for this episode: the title slice on a None
\* title, `in` or item assignment on tags that are no dict, int() on a digit
\* string it rejects
FixEpisodeRaises(e) ==
    /\ ~TagsIsNone(e.tags)
    /\ \/ TitleRaises(e)
       \/ e.tags.k # "obj"
       \/ LET num == e.tags.episode_number
          IN  num.k = "str" /\ IsDigit(num.s) /\ IntRaises(num.s)

\* fixes_made: one entry for each episode with fixes, in store order
FixesMade(eps, tax) ==
    LET all == [k \in 1..Len(eps) |->
                   [title |-> eps[k].title, fixes |-> FixEpisode(eps[k], tax).fixes]]
        HasFixes(x) == x.fixes # << >>
    IN  SelectSeq(all, HasFixes)

\* fix() up to its save_state
Fix ==
    /\ Start("fix", NoFeed)
    /\ IF ~file.ok THEN
            /\ End("crashed")
            /\ UNCHANGED <<count, fixes>>
       ELSE IF \E k \in 1..Len(file.episodes) : FixEpisodeRaises(file.episodes[k]) THEN
            \* the exception ends fix() before save_state: nothing is written
            /\ End("crashed")
            /\ UNCHANGED <<count, fixes>>
       ELSE /\ episodes' = [k \in 1..Len(file.episodes) |->
                               FixEpisode(file.episodes[k], taxonomy).episode]
            /\ fixes' = FixesMade(file.episodes, taxonomy)
            /\ count' = Len(FixesMade(file.episodes, taxonomy))
            /\ pc' = "save"
            /\ status' = "running"
            /\ UNCHANGED <<todo, done, tasks, results>>
    /\ exported' = << >>
    /\ UNCHANGED <<file, taxonomy, now>>


-----------------------------------------------------------------------------
(* validate *)

\* `if tags is None: continue` is not taken: the episode is checked
Tagged(e) == ~TagsIsNone(e.tags)

\* the title slice or validate_episode_tags raises for an episode validate() checks
ValidateEpisodeRaises(e, tax) ==
    Tagged(e) /\ (TitleRaises(e) \/ ValidateRaises(e.tags, tax))

\* invalid_count of validate()
InvalidCount(eps, tax) ==
    Cardinality({k \in 1..Len(eps) :
                    Tagged(eps[k]) /\ validate_episode_tags(eps[k].tags, tax) # << >>})

\* validate(): it reads state.json and prints its counts
Validate ==
    /\ Start("validate", NoFeed)
    /\ IF ~file.ok THEN
            /\ End("crashed")
            /\ UNCHANGED count
       ELSE IF \E k \in 1..Len(file.episodes) :
                   ValidateEpisodeRaises(file.episodes[k], taxonomy) THEN
            /\ End("crashed")
            /\ UNCHANGED count
       ELSE /\ End("done")
            /\ count' = InvalidCount(file.episodes, taxonomy)
    /\ fixes' = << >>
    /\ exported' = << >>
    /\ UNCHANGED <<file, taxonomy, now>>

-----------------------------------------------------------------------------
(* export *)

\* the record export() appends for a tagged episode
Flatten(e) ==
    [guid                |-> e.guid,
     title               |-> e.title,
     published_date      |-> e.published_date,
     audio_url           |-> e.audio_url,
     tags                |-> e.tags,
     cleaned_description |-> e.cleaned_description]

\* a variant of the selection that takes every episode
TaggedEpisodesAll(eps) == [k \in 1..Len(eps) |-> Flatten(eps[k])]

\* tagged_episodes before the sort, in store order
TaggedEpisodes(eps) ==
    LET sel == SelectSeq(eps, Tagged)
    IN  [k \in 1..Len(sel) |-> Flatten(sel[k])]

\* the published_date strings of the model in the order of Python's str
\* comparison (by code point): "" < "F..." < "M..."
DateOrder ==
    <<"", "Fri, 01 Mar 2024 00:00:00 +0000", "Mon, 01 Jan 2024 00:00:00 +0000">>

DateRank(d) == CHOOSE i \in 1..Len(DateOrder) : DateOrder[i] = d

\* x["published_date"] < y["published_date"] for two str values
DateLess(x, y) == DateRank(Get(x.published_date)) < DateRank(Get(y.published_date))

\* the comparison of the sort keys raises TypeError: a None key among two or more
SortRaises(recs) ==
    Len(recs) >= 2 /\ \E k \in 1..Len(recs) : IsNone(recs[k].published_date)

\* x put into a list sorted newest first, after every record that is not older
InsertByDate(sorted, x) ==
    LET older == {i \in 1..Len(sorted) : DateLess(sorted[i], x)}
        at    == IF older = {} THEN Len(sorted) + 1 ELSE SetMin(older)
    IN  SubSeq(sorted, 1, at - 1) \o <<x>> \o SubSeq(sorted, at, Len(sorted))

\* tagged_episodes.sort(key=published_date, reverse=True): stable, descending
RECURSIVE SortByDate(_)
SortByDate(recs) ==
    IF recs = << >> THEN << >>
    ELSE InsertByDate(SortByDate(SubSeq(recs, 1, Len(recs) - 1)), recs[Len(recs)])

\* a variant of export that saves the tagged episodes back as the store
ExportPrunes ==
    /\ Start("export", NoFeed)
    /\ IF ~file.ok \/ SortRaises(TaggedEpisodes(file.episodes)) THEN
            /\ End("crashed")
            /\ exported' = << >>
            /\ UNCHANGED <<count, file>>
       ELSE /\ End("done")
            /\ exported' = SortByDate(TaggedEpisodes(file.episodes))
            /\ count' = Len(TaggedEpisodes(file.episodes))
            /\ file' = [file EXCEPT !.episodes = SelectSeq(file.episodes, Tagged)]
    /\ fixes' = << >>
    /\ UNCHANGED <<taxonomy, now>>

\* export(): it reads state.json and writes the sorted array to a new file
Export ==
    /\ Start("export", NoFeed)
    /\ IF ~file.ok THEN
            /\ End("crashed")
            /\ exported' = << >>
            /\ UNCHANGED count
       ELSE IF SortRaises(TaggedEpisodes(file.episodes)) THEN
            /\ End("crashed")
            /\ exported' = << >>
            /\ UNCHANGED count
       ELSE /\ End("done")
            /\ exported' = SortByDate(TaggedEpisodes(file.episodes))
            /\ count' = Len(TaggedEpisodes(file.episodes))
    /\ fixes' = << >>
    /\ UNCHANGED <<file, taxonomy, now>>

-----------------------------------------------------------------------------
(* search_api.py: the pure functions *)

FileRange(f, a, b) == [file |-> f, start_chunk |-> a, end_chunk |-> b]

\* a variant of map_chunk_to_podcast whose ranges exclude their end_chunk
RECURSIVE MapBelowEnd(_, _)
MapBelowEnd(chunk_id, file_ranges) ==
    IF file_ranges = << >> THEN None
    ELSE LET file_range == Head(file_ranges)
         IN  IF file_range.start_chunk <= chunk_id /\ chunk_id < file_range.end_chunk
             THEN Some(file_range.file)
             ELSE MapBelowEnd(chunk_id, Tail(file_ranges))

\* map_chunk_to_podcast(chunk_id, file_ranges): the loop returns at the first hit
RECURSIVE map_chunk_to_podcast(_, _)
map_chunk_to_podcast(chunk_id, file_ranges) ==
    IF file_ranges = << >> THEN None
    ELSE LET file_range == Head(file_ranges)
         IN  IF file_range.start_chunk <= chunk_id /\ chunk_id <= file_range.end_chunk
             THEN Some(file_range.file)
             ELSE map_chunk_to_podcast(chunk_id, Tail(file_ranges))

\* mapping = {}
EmptyMapping == [c \in {} |-> ""]

\* the loops of build_chunk_mapping: a later range overwrites an earlier one
RECURSIVE BuildFrom(_, _)
BuildFrom(mapping, file_ranges) ==
    IF file_ranges = << >> THEN mapping
    ELSE LET file_range == Head(file_ranges)
             ids == file_range.start_chunk..file_range.end_chunk
         IN  BuildFrom([c \in (DOMAIN mapping) \cup ids |->
                           IF c \in ids THEN file_range.file ELSE mapping[c]],
                       Tail(file_ranges))

build_chunk_mapping(file_ranges) == BuildFrom(EmptyMapping, file_ranges)

\* parse_metadata_file_ranges applied to the metadata file, when it exists
parse_metadata_file_ranges(m) == IF IsNone(m) THEN << >> ELSE Get(m)

\* a result of the retriever: chunk_id, and a score that, as "score" or as
\* calculate_similarity_score(distance), lies in [0, 1] or (a "score" only) does not
Hit(c, inRange) == [chunk_id |-> c, in_range |-> inRange]

\* transform_search_result(result, chunk_mapping)
transform_search_result(result, chunk_mapping) ==
    [podcast_title |-> IF result.chunk_id \in DOMAIN chunk_mapping
                       THEN chunk_mapping[result.chunk_id] ELSE "Unknown",
     chunk_id      |-> result.chunk_id,
     in_range      |-> result.in_range]

-----------------------------------------------------------------------------
(* search_api.py: the application *)

\* SearchAPI(): self.retriever = None, self.chunk_mapping = {}, self.ready = False
EmptySearchAPI == [ready |-> FALSE, retriever |-> FALSE, chunk_mapping |-> EmptyMapping]

\* SearchAPI(index_base) after _load_index went through
LoadedSearchAPI(m) ==
    [ready |-> TRUE, retriever |-> TRUE,
     chunk_mapping |-> build_chunk_mapping(parse_metadata_file_ranges(m))]

\* `if index_base and index_base != "test"`
LoadsIndex(index_base) == index_base \notin {"none", "", "test"}

NoResponse ==
    [endpoint |-> "none", code |-> 0, query |-> "", results |-> << >>, index_loaded |-> FALSE]

Answer(endpoint, code, query, rs, index_loaded) ==
    [endpoint |-> endpoint, code |-> code, query |-> query, results |-> rs,
     index_loaded |-> index_loaded]

\* create_app(test_mode, index_base); retrieverOk is whether MemvidRetriever(...)
\* can be imported and built.  When _load_index raises, create_app raises
\* before it assigns the global and returns no application.
CreateApp(test_mode, index_base, retrieverOk) ==
    /\ IF test_mode \/ ~LoadsIndex(index_base) THEN
            /\ search_api' = Some(EmptySearchAPI)
            /\ apps' = apps \cup {test_mode}
       ELSE IF retrieverOk THEN
            /\ search_api' = Some(LoadedSearchAPI(metadata))
            /\ apps' = apps \cup {test_mode}
       ELSE UNCHANGED <<search_api, apps>>
    /\ UNCHANGED <<response, called, metadata, request>>
    /\ UNCHANGED <<file, taxonomy, now, pc, cmd, status, episodes, count, todo, done,
                   tasks, results, fixes, exported, hist, runner>>

\* no request body
NoRequest == [body |-> FALSE, query |-> "", top_k |-> 0]

\* GET /health on an application
Health(test_mode) ==
    /\ test_mode \in apps
    /\ response' = Answer("health", 200, "", << >>,
                          IF IsNone(search_api) THEN FALSE ELSE Get(search_api).ready)
    /\ called' = FALSE
    /\ request' = [app |-> test_mode, req |-> NoRequest]
    /\ UNCHANGED <<search_api, apps, metadata>>
    /\ UNCHANGED <<file, taxonomy, now, pc, cmd, status, episodes, count, todo, done,
                   tasks, results, fixes, exported, hist, runner>>

\* SearchRequest: query of at least one character, top_k at least 1
ValidRequest(req) == req.body /\ req.query # "" /\ req.top_k >= 1

\* every SearchResult(**r) passes its validation (0 <= score <= 1)
ResultsValid(rs) == \A k \in 1..Len(rs) : rs[k].in_range

\* a variant of POST /search that hands every valid request to the retriever
SearchUnguarded(test_mode, req, retr) ==
    /\ test_mode \in apps
    /\ request' = [app |-> test_mode, req |-> req]
    /\ IF ~ValidRequest(req) THEN
            /\ response' = Answer("search", 422, "", << >>, FALSE)
            /\ called' = FALSE
       ELSE /\ called' = TRUE
            /\ response' = IF retr.ok THEN Answer("search", 200, req.query, << >>, FALSE)
                           ELSE Answer("search", 500, "", << >>, FALSE)
    /\ UNCHANGED <<search_api, apps, metadata>>
    /\ UNCHANGED <<file, taxonomy, now, pc, cmd, status, episodes, count, todo, done,
                   tasks, results, fixes, exported, hist, runner>>

\* POST /search on an application; retr is what the retriever would do with
\* the call: [ok |-> it returns, hits |-> its results]
Search(test_mode, req, retr) ==
    /\ test_mode \in apps
    /\ request' = [app |-> test_mode, req |-> req]
    /\ IF ~ValidRequest(req) THEN
            \* the request model rejects the body
            /\ response' = Answer("search", 422, "", << >>, FALSE)
            /\ called' = FALSE
       ELSE IF IsNone(search_api) THEN
            /\ response' = Answer("search", 503, "", << >>, FALSE)
            /\ called' = FALSE
       ELSE IF ~Get(search_api).ready THEN
            /\ response' = IF test_mode THEN Answer("search", 200, req.query, << >>, FALSE)
                           ELSE Answer("search", 503, "", << >>, FALSE)
            /\ called' = FALSE
       ELSE IF ~Get(search_api).retriever THEN
            \* SearchAPI.search returns [] without a retriever
            /\ response' = Answer("search", 200, req.query, << >>, FALSE)
            /\ called' = FALSE
       ELSE LET transformed == [k \in 1..Len(retr.hits) |->
                                   transform_search_result(retr.hits[k],
                                                           Get(search_api).chunk_mapping)]
            IN  /\ called' = TRUE
                /\ response' =
                      IF ~retr.ok \/ ~ResultsValid(transformed)
                      THEN Answer("search", 500, "", << >>, FALSE)
                      ELSE Answer("search", 200, req.query, transformed, FALSE)
    /\ UNCHANGED <<search_api, apps, metadata>>
    /\ UNCHANGED <<file, taxonomy, now, pc, cmd, status, episodes, count, todo, done,
                   tasks, results, fixes, exported, hist, runner>>

\* no application was created; there is no metadata file
InitWeb ==
    /\ search_api = None
    /\ apps = {}
    /\ response = NoResponse
    /\ called = FALSE
    /\ metadata = None
    /\ request = [app |-> FALSE, req |-> NoRequest]

-----------------------------------------------------------------------------
(* transcribe.py: an entry of the export file is modelled by the keys the    *)
(* runner reads: guid (a string), published_date and audio_url (optional   *)
(* strings).  An entry of the transcribed list has the guid and the number *)
(* its transcript file name starts with.                                   *)

\* datetime.strptime(text, "%a, %d %b %Y %H:%M:%S %z"): the instant the text
\* names, in days since 2024-01-01; None when strptime raises (a text of
\* another form: ValueError, no text: TypeError)
strptime(text) ==
    IF IsNone(text) THEN None
    ELSE IF Get(text) = "Mon, 01 Jan 2024 00:00:00 +0000" THEN Some(0)
    ELSE IF Get(text) = "Thu, 01 Feb 2024 00:00:00 +0000" THEN Some(31)
    ELSE IF Get(text) = "Fri, 01 Mar 2024 00:00:00 +0000" THEN Some(60)
    ELSE None

\* the loop that sets _parsed_date raises for some episode
ParseRaises(all_episodes) ==
    \E k \in 1..Len(all_episodes) : IsNone(strptime(all_episodes[k].published_date))

\* x put into a list sorted oldest first, after every episode that is not later
InsertByParsedDate(sorted, x) ==
    LET later == {i \in 1..Len(sorted) :
                     Get(strptime(sorted[i].published_date)) > Get(strptime(x.published_date))}
        at    == IF later = {} THEN Len(sorted) + 1 ELSE SetMin(later)
    IN  SubSeq(sorted, 1, at - 1) \o <<x>> \o SubSeq(sorted, at, Len(sorted))

\* all_episodes.sort(key=_parsed_date): stable, ascending
RECURSIVE SortByParsedDate(_)
SortByParsedDate(all_episodes) ==
    IF all_episodes = << >> THEN << >>
    ELSE InsertByParsedDate(SortByParsedDate(SubSeq(all_episodes, 1, Len(all_episodes) - 1)),
                            all_episodes[Len(all_episodes)])

\* processed_guids: the guids of the transcribed list, none when the file is missing
ProcessedGuids(processed) ==
    IF IsNone(processed) THEN {}
    ELSE {Get(processed)[k].guid : k \in 1..Len(Get(processed))}

\* episode.get('audio_url') is truthy: the key holds a string that is not empty
HasAudio(episode) == ~IsNone(episode.audio_url) /\ Get(episode.audio_url) # ""

\* the episodes of the sorted list with their 1-based index, those the loop keeps
Kept(all_episodes, processed) ==
    LET sorted   == SortByParsedDate(all_episodes)
        numbered == [i \in 1..Len(sorted) |-> [episode |-> sorted[i], i |-> i]]
    IN  SelectSeq(numbered, LAMBDA r : /\ r.episode.guid \notin ProcessedGuids(processed)
                                       /\ HasAudio(r.episode))

\* a variant of load_episodes that numbers the episodes it returns 1, 2, ...
LoadEpisodesNumbersReturned(all_episodes, processed) ==
    LET kept == Kept(all_episodes, processed)
    IN  [unprocessed       |-> [k \in 1..Len(kept) |-> kept[k].episode],
         episode_positions |-> [k \in 1..Len(kept) |-> <<kept[k].episode.guid, k>>]]

\* load_episodes(export_file, processed_file) when no date raises: the
\* episodes to transcribe, oldest first, and for each guid its position in
\* the sorted list of all episodes
load_episodes(all_episodes, processed) ==
    LET kept == Kept(all_episodes, processed)
    IN  [unprocessed       |-> [k \in 1..Len(kept) |-> kept[k].episode],
         episode_positions |-> [k \in 1..Len(kept) |-> <<kept[k].episode.guid, kept[k].i>>]]

\* episode_positions[guid]: a dict keeps the last value stored under a key
PositionOf(positions, guid) ==
    LET at == {k \in 1..Len(positions) : positions[k][1] = guid}
    IN  positions[CHOOSE k \in at : \A j \in at : j <= k][2]

\* no run of main() has started
NoRun == [pc |-> "idle", status |-> "none", run |-> 0, i |-> 0, success |-> 0, failed |-> 0]

\* main() up to its loop.  ready: the API key or whisper-cli and the export
\* file are there; otherwise main returns at once.  It creates the processed
\* file when it is missing and loads the episodes; a date that does not parse
\* ends the run with the exception, an empty list with a message.
Main(ready) ==
    /\ main.pc = "idle"
    /\ main.run < MaxRuns
    /\ IF ~ready THEN
            /\ main' = [NoRun EXCEPT !.status = "exit", !.run = main.run + 1]
            /\ UNCHANGED <<processed_file, unprocessed, episode_positions>>
       ELSE /\ processed_file' = IF IsNone(processed_file) THEN Some(<< >>) ELSE processed_file
            /\ IF ParseRaises(export_file) THEN
                    /\ main' = [NoRun EXCEPT !.status = "crashed", !.run = main.run + 1]
                    /\ UNCHANGED <<unprocessed, episode_positions>>
               ELSE LET loaded == load_episodes(export_file, processed_file')
                    IN  /\ unprocessed' = loaded.unprocessed
                        /\ episode_positions' = loaded.episode_positions
                        /\ main' = IF loaded.unprocessed = << >>
                                   THEN [NoRun EXCEPT !.status = "done", !.run = main.run + 1]
                                   ELSE [NoRun EXCEPT !.pc = "loop", !.status = "running",
                                                      !.run = main.run + 1, !.i = 1]
    /\ UNCHANGED <<export_file, attempts>>
    /\ UNCHANGED <<file, taxonomy, now, pc, cmd, status, episodes, count, todo, done,
                   tasks, results, fixes, exported, hist, web>>

\* what a call of transcribe_episode comes to: "ok" (transcription_success),
\* "failed" (the transcription did not succeed: return False) and "error"
\* (the download, ffmpeg or the update of the processed file raised: return False)
Outcomes == {"ok", "failed", "error"}

\* a variant of the loop step that records the episode whatever the outcome
TranscribeEpisodeRecordsAll(outcome) ==
    /\ main.pc = "loop"
    /\ LET episode        == unprocessed[main.i]
           episode_number == PositionOf(episode_positions, episode.guid)
           last           == main.i = Len(unprocessed)
       IN  /\ processed_file' =
                  Some(Append(Get(processed_file),
                              [guid |-> episode.guid, transcript_file |-> episode_number]))
           /\ main' = [main EXCEPT !.success = @ + 1,
                                   !.i = @ + 1,
                                   !.pc = IF last THEN "idle" ELSE "loop",
                                   !.status = IF last THEN "done" ELSE "running"]
           /\ attempts' = attempts \cup {[run |-> main.run, guid |-> episode.guid,
                                          number |-> episode_number, ok |-> outcome = "ok"]}
    /\ UNCHANGED <<export_file, unprocessed, episode_positions>>
    /\ UNCHANGED <<file, taxonomy, now, pc, cmd, status, episodes, count, todo, done,
                   tasks, results, fixes, exported, hist, web>>

\* one round of main's loop: transcribe_episode for the next episode, with
\* its position as the number.  Only a transcription that succeeded appends
\* the guid to the transcribed list; main counts the result and goes on.
TranscribeEpisode(outcome) ==
    /\ main.pc = "loop"
    /\ LET episode        == unprocessed[main.i]
           episode_number == PositionOf(episode_positions, episode.guid)
           last           == main.i = Len(unprocessed)
       IN  /\ processed_file' =
                  IF outcome = "ok"
                  THEN Some(Append(Get(processed_file),
                                   [guid |-> episode.guid, transcript_file |-> episode_number]))
                  ELSE processed_file
           /\ main' = [main EXCEPT !.success = IF outcome = "ok" THEN @ + 1 ELSE @,
                                   !.failed = IF outcome = "ok" THEN @ ELSE @ + 1,
                                   !.i = @ + 1,
                                   !.pc = IF last THEN "idle" ELSE "loop",
                                   !.status = IF last THEN "done" ELSE "running"]
           /\ attempts' = attempts \cup {[run |-> main.run, guid |-> episode.guid,
                                          number |-> episode_number, ok |-> outcome = "ok"]}
    /\ UNCHANGED <<export_file, unprocessed, episode_positions>>
    /\ UNCHANGED <<file, taxonomy, now, pc, cmd, status, episodes, count, todo, done,
                   tasks, results, fixes, exported, hist, web>>

\* the run is stopped (KeyboardInterrupt passes the except clauses) before
\* the next episode
MainInterrupted ==
    /\ main.pc = "loop"
    /\ main' = [main EXCEPT !.pc = "idle", !.status = "interrupted"]
    /\ UNCHANGED <<export_file, processed_file, unprocessed, episode_positions, attempts>>
    /\ UNCHANGED <<file, taxonomy, now, pc, cmd, status, episodes, count, todo, done,
                   tasks, results, fixes, exported, hist, web>>

\* no export file was written and no run was made
InitRunner ==
    /\ export_file = << >>
    /\ processed_file = None
    /\ unprocessed = << >>
    /\ episode_positions = << >>
    /\ main = NoRun
    /\ attempts = {}

-----------------------------------------------------------------------------
(* Inputs: feed items, model replies, taxonomies *)

Item(guid, title, description) ==
    [guid |-> guid, title |-> title, description |-> description,
     pubDate |-> Elem(Some("Mon, 01 Jan 2024 00:00:00 +0000")),
     enclosure |-> Some("http://x/a.mp3")]

\* "<b>x"
Markup == <<"<", "b", ">", "x">>

GoodItem(g) == Item(Elem(Some(g)), Elem(Some("T")), Elem(Some(Markup)))

\* <description/>: ingest stores description None
NoDescriptionItem(g) == Item(Elem(Some(g)), Elem(Some("T")), Elem(None))

\* <title/>: ingest stores title None
NoTitleItem(g) == Item(Elem(Some(g)), Elem(None), Elem(Some(Markup)))

OkFeed(items) == [status |-> "ok", items |-> items]

\* the feeds of the pipeline specification
PipeFeeds ==
    {OkFeed(<<GoodItem(<<"a">>), GoodItem(<<"d">>)>>),
     OkFeed(<<GoodItem(<<"e">>)>>),
     OkFeed(<<NoDescriptionItem(<<"b">>)>>),
     OkFeed(<<NoTitleItem(<<"c">>)>>)}

\* the model answers with text, or the call raises
CleanReplies ==
    {[ok |-> TRUE, content |-> Some(<<"y", " ">>)], [ok |-> FALSE, content |-> None]}

JsonReply(v) == [ok |-> TRUE, content |-> [kind |-> "json", value |-> v]]

NotJsonReply == [ok |-> TRUE, content |-> [kind |-> "notjson", value |-> NullTags]]

EmptyReply == [ok |-> TRUE, content |-> [kind |-> "empty", value |-> NullTags]]

FailedCall == [ok |-> FALSE, content |-> [kind |-> "none", value |-> NullTags]]

ValidTags ==
    Obj(List(<<Str("Series Episodes")>>), List(<<Str("Military History & Battles")>>),
        List(<<Str("Roman Track")>>), NullNum)

\* a well-formed reply with a tag the taxonomy does not have
BogusTags == [ValidTags EXCEPT !.Theme = List(<<Str("Bogus")>>)]

PipeTagReplies ==
    {JsonReply(ValidTags), JsonReply(NonObjTags), NotJsonReply}

\* a taxonomy.json that generate-taxonomy wrote: no "Standalone Episodes"
GeneratedTaxonomy ==
    [Format |-> {"Series Episodes"},
     Theme  |-> {"Military History & Battles"},
     Track  |-> {"Roman Track"}]

Taxonomies == {DefaultTaxonomy, GeneratedTaxonomy}

-----------------------------------------------------------------------------
(* Specifications *)

\* no state.json yet; taxonomy.json is absent (the default taxonomy) or was generated
InitAny ==
    /\ file = EmptyFile
    /\ taxonomy \in Taxonomies
    /\ now = 1
    /\ pc = "idle"
    /\ cmd = "none"
    /\ status = "none"
    /\ episodes = << >>
    /\ count = 0
    /\ todo = << >>
    /\ done = 0
    /\ tasks = {}
    /\ results = << >>
    /\ fixes = << >>
    /\ exported = << >>
    /\ InitWeb
    /\ before = EmptyFile
    /\ feed = NoFeed
    /\ repeat = FALSE
    /\ prompts = {}
    /\ InitRunner

Init == InitAny /\ taxonomy = DefaultTaxonomy

\* the pipeline: every command, the workers, and interruption at any point
Next ==
    \/ \E hasUrl \in BOOLEAN, f \in PipeFeeds : Ingest(hasUrl, f)
    \/ \E hasKey \in BOOLEAN : CleanStart(hasKey)
    \/ \E hasKey \in BOOLEAN : TagStart(hasKey)
    \/ Fix
    \/ Submit
    \/ \E g \in tasks, llm \in CleanReplies : CleanTask(g, llm)
    \/ \E g \in tasks, llm \in PipeTagReplies : TagTask(g, llm)
    \/ CleanCollect
    \/ TagCollect
    \/ SaveOpen
    \/ SaveWrite
    \/ Interrupt

Spec == Init /\ [][Next]_vars


-----------------------------------------------------------------------------
(* The ingest specification: many feeds, one model reply per stage, a clock *)

\* items by their guid text: no element, empty, only whitespace, plain, padded
NoGuidItem == Item(NoElem, Elem(Some("T")), Elem(Some(Markup)))

EmptyGuidItem == Item(Elem(None), Elem(Some("T")), Elem(Some(Markup)))

BlankGuidItem == Item(Elem(Some(<<" ">>)), Elem(Some("T")), Elem(Some(Markup)))

\* guid " a": the guid of GoodItem(<<"a">>) once stripped, with another title and description
PaddedItem == Item(Elem(Some(<<" ", "a">>)), Elem(Some("T2")), Elem(Some(<<"z">>)))

\* no title, description or pubDate element
BareItem(g) == Item(Elem(Some(g)), NoElem, NoElem)

IngestFeeds ==
    {OkFeed(<< >>),
     OkFeed(<<NoGuidItem>>),
     OkFeed(<<EmptyGuidItem, GoodItem(<<"a">>)>>),
     OkFeed(<<BlankGuidItem>>),
     OkFeed(<<GoodItem(<<"a">>)>>),
     OkFeed(<<PaddedItem>>),
     OkFeed(<<PaddedItem, GoodItem(<<"a">>)>>),
     OkFeed(<<BareItem(<<"b">>), PaddedItem>>),
     [status |-> "error", items |-> << >>],
     [status |-> "nochannel", items |-> << >>]}

OneCleanReply == {[ok |-> TRUE, content |-> Some(<<"y">>)]}

NextIngest ==
    \/ \E f \in IngestFeeds : Ingest(TRUE, f)
    \/ CleanStart(TRUE)
    \/ TagStart(TRUE)
    \/ Submit
    \/ \E g \in tasks, llm \in OneCleanReply : CleanTask(g, llm)
    \/ \E g \in tasks : TagTask(g, JsonReply(ValidTags))
    \/ CleanCollect
    \/ TagCollect
    \/ SaveOpen
    \/ SaveWrite
    \/ Tick

SpecIngest == Init /\ [][NextIngest]_vars


-----------------------------------------------------------------------------
(* The repair specification: one episode, tagged with any of many replies *)

FormatValues ==
    {MissingCat, OtherVal, StrVal("Series Episodes"), StrVal("Bogus"),
     List(<< >>), List(<<Str("Series Episodes")>>), List(<<Str("Standalone Episodes")>>),
     List(<<Str("Bogus")>>), List(<<Str("Bogus"), Str("Series Episodes")>>),
     List(<<OtherItem>>)}

ThemeValues ==
    {MissingCat, OtherVal, StrVal("Military History & Battles"), StrVal("Bogus"),
     List(<< >>), List(<<Str("Military History & Battles")>>), List(<<Str("Bogus")>>),
     List(<<Str("Military History & Battles"), Str("Bogus"), Str("Military History & Battles")>>),
     List(<<UnhashableItem>>)}

TrackValues ==
    {MissingCat, StrVal("Roman Track"), List(<<Str("Roman Track")>>),
     List(<<Str("Series Episodes"), Str("Roman Track")>>)}

NumberValues ==
    {MissingNum, NullNum, IntNum(MaxEpisodes), KindNum("bool"), KindNum("float"),
     StrNum(<<"1", "2">>), StrNum(<<"x">>), StrNum(<< >>), StrNum(<<"^2">>)}

FixTagReplies ==
    {JsonReply(Obj(f, th, tr, num)) :
        f \in FormatValues, th \in ThemeValues, tr \in TrackValues, num \in NumberValues}
    \cup {JsonReply(NonObjTags), JsonReply(NullTags), NotJsonReply, EmptyReply, FailedCall}

NextFix ==
    \/ Ingest(TRUE, OkFeed(<<GoodItem(<<"a">>)>>))
    \/ CleanStart(TRUE)
    \/ TagStart(TRUE)
    \/ Submit
    \/ \E g \in tasks, llm \in OneCleanReply : CleanTask(g, llm)
    \/ \E g \in tasks, llm \in FixTagReplies : TagTask(g, llm)
    \/ CleanCollect
    \/ TagCollect
    \/ SaveOpen
    \/ SaveWrite
    \/ Fix

SpecFix == InitAny /\ [][NextFix]_vars

-----------------------------------------------------------------------------
(* The command specification: every command of the command line, over feeds   *)
(* whose items differ in their pubDate                                        *)

\* an item with <pubDate>d</pubDate>; d = None is the empty element <pubDate/>
DatedItem(g, d) == [GoodItem(g) EXCEPT !.pubDate = Elem(d)]

CommandFeeds ==
    {OkFeed(<<GoodItem(<<"a">>), DatedItem(<<"d">>, Some("Fri, 01 Mar 2024 00:00:00 +0000"))>>),
     OkFeed(<<DatedItem(<<"b">>, None)>>)}

CommandTagReplies ==
    {JsonReply(ValidTags), JsonReply(BogusTags), JsonReply(NonObjTags), JsonReply(NullTags)}

NextCommands ==
    \/ \E f \in CommandFeeds : Ingest(TRUE, f)
    \/ CleanStart(TRUE)
    \/ TagStart(TRUE)
    \/ Validate
    \/ Fix
    \/ Export
    \/ Submit
    \/ \E g \in tasks, llm \in OneCleanReply : CleanTask(g, llm)
    \/ \E g \in tasks, llm \in CommandTagReplies : TagTask(g, llm)
    \/ CleanCollect
    \/ TagCollect
    \/ SaveOpen
    \/ SaveWrite
    \/ Interrupt

SpecCommands == Init /\ [][NextCommands]_vars

-----------------------------------------------------------------------------
(* The validator specification: validate over a store of one episode that    *)
(* the tagging stage left with any of many parsed replies                    *)

\* what json.loads can hand to tag() as tags, short of null
ParsedReplies ==
    {Obj(f, th, tr, num) :
        f \in FormatValues, th \in ThemeValues, tr \in TrackValues, num \in NumberValues}
    \cup {NonObjTags}

\* the episode of GoodItem(<<"a">>) after ingest, clean and a tag run that stored t
TaggedEpisode(t) ==
    [NewEpisode(GoodItem(<<"a">>), <<"a">>, Some(1)) EXCEPT
        !.cleaned_description = Some(<<"y">>),
        !.cleaned_at = Some(1),
        !.tags = t,
        !.tagged_at = Some(1)]

InitValidate ==
    /\ \E t \in ParsedReplies : file = [ok |-> TRUE, episodes |-> <<TaggedEpisode(t)>>]
    /\ taxonomy \in Taxonomies
    /\ now = 1
    /\ pc = "idle"
    /\ cmd = "tag"
    /\ status = "done"
    /\ episodes = << >>
    /\ count = 1
    /\ todo = << >>
    /\ done = 0
    /\ tasks = {}
    /\ results = << >>
    /\ fixes = << >>
    /\ exported = << >>
    /\ InitWeb
    /\ before = [ok |-> TRUE,
                 episodes |-> <<[TaggedEpisode(NullTags) EXCEPT !.tagged_at = None]>>]
    /\ feed = NoFeed
    /\ repeat = FALSE
    /\ prompts = {}
    /\ InitRunner

NextValidate == Validate

SpecValidate == InitValidate /\ [][NextValidate]_vars

-----------------------------------------------------------------------------
(* The search specification: applications are created and asked, over many   *)
(* metadata files                                                            *)

\* chunk ids 0..MaxChunk bound the ranges of the metadata files
MaxChunk == 2

PodcastFiles == {"pod1.txt", "pod2.txt"}

FileRanges == {FileRange(f, a, b) : f \in PodcastFiles, a \in 0..MaxChunk, b \in 0..MaxChunk}

\* file_ranges of up to two ranges: disjoint, overlapping, empty (start > end)
FileRangeLists == {<< >>} \cup {<<r>> : r \in FileRanges}
                  \cup {<<r, q>> : r \in FileRanges, q \in FileRanges}

Metadatas == {None} \cup {Some(l) : l \in FileRangeLists}

\* the chunk ids the functions are asked about: inside and beside the ranges
Chunks == (0 - 1)..(MaxChunk + 1)

Request(body, query, top_k) == [NoRequest EXCEPT !.body = body, !.query = query, !.top_k = top_k]

\* no body, an empty query, top_k = 0, and a valid request
Requests ==
    {Request(FALSE, "", 0), Request(TRUE, "", 1), Request(TRUE, "test", 0),
     Request(TRUE, "test", 1)}

\* what the retriever does: it raises, or returns no hit or one hit
RetrieverAnswers ==
    {[ok |-> FALSE, hits |-> << >>], [ok |-> TRUE, hits |-> << >>],
     [ok |-> TRUE, hits |-> <<Hit(1, TRUE)>>], [ok |-> TRUE, hits |-> <<Hit(0, FALSE)>>]}

IndexBases == {"none", "test", "memory"}

InitSearch ==
    /\ file = EmptyFile
    /\ taxonomy = DefaultTaxonomy
    /\ now = 1
    /\ pc = "idle"
    /\ cmd = "none"
    /\ status = "none"
    /\ episodes = << >>
    /\ count = 0
    /\ todo = << >>
    /\ done = 0
    /\ tasks = {}
    /\ results = << >>
    /\ fixes = << >>
    /\ exported = << >>
    /\ before = EmptyFile
    /\ feed = NoFeed
    /\ repeat = FALSE
    /\ prompts = {}
    /\ InitRunner
    /\ search_api = None
    /\ apps = {}
    /\ response = NoResponse
    /\ called = FALSE
    /\ request = [app |-> FALSE, req |-> NoRequest]
    /\ metadata \in Metadatas

NextSearch ==
    \/ \E test_mode \in BOOLEAN, index_base \in IndexBases, retrieverOk \in BOOLEAN :
          CreateApp(test_mode, index_base, retrieverOk)
    \/ \E test_mode \in BOOLEAN : Health(test_mode)
    \/ \E test_mode \in BOOLEAN, req \in Requests, retr \in RetrieverAnswers :
          Search(test_mode, req, retr)

SpecSearch == InitSearch /\ [][NextSearch]_vars

-----------------------------------------------------------------------------
(* The taxonomy specification: the pipeline on a feed of two episodes while   *)
(* another process runs generate-taxonomy                                    *)

NextTaxonomy ==
    \/ Ingest(TRUE, OkFeed(<<GoodItem(<<"a">>), GoodItem(<<"d">>)>>))
    \/ CleanStart(TRUE)
    \/ TagStart(TRUE)
    \/ Submit
    \/ \E g \in tasks, llm \in OneCleanReply : CleanTask(g, llm)
    \/ \E g \in tasks : TagTask(g, JsonReply(ValidTags))
    \/ CleanCollect
    \/ TagCollect
    \/ SaveOpen
    \/ SaveWrite
    \/ \E tax \in Taxonomies : GenerateTaxonomy(tax)

SpecTaxonomy == Init /\ [][NextTaxonomy]_vars

-----------------------------------------------------------------------------
(* Properties of ingest *)

\* the command c ran to its end and the process is back at the prompt
Completed(c) == pc = "idle" /\ cmd = c /\ status = "done"

\* the episode of guid g in a list that has it
Episode(eps, g) == eps[IndexOf(eps, g)]

\* C1: ingest is idempotent.  When ingest has run to its end on a feed and is
\* run again at once on the same feed, the store it persists is the store the
\* first run left (no episode added, no field changed, ingested_at included)
\* and it reports 0 new episodes.
C1_IngestIdempotent == (Completed("ingest") /\ repeat) => (file = before /\ count = 0)

\* C1's case: a second run on a feed with a padded guid, after the clock moved on
C1_Witness ==
    /\ Completed("ingest")
    /\ repeat
    /\ \E k \in 1..Len(feed.items) :
          /\ ~GuidUnusable(feed.items[k].guid)
          /\ Get(Get(feed.items[k].guid)) # Strip(Get(Get(feed.items[k].guid)))
    /\ \E k \in 1..Len(file.episodes) : file.episodes[k].ingested_at # Stamp

\* C2: ingest is non-destructive.  Every episode that was in the store before
\* an ingest run is in it afterwards with every field unchanged, also when
\* the feed carries another title or description for its guid.
C2_IngestKeepsExisting ==
    Completed("ingest") =>
        \A k \in 1..Len(before.episodes) :
            /\ HasGuid(file.episodes, before.episodes[k].guid)
            /\ Episode(file.episodes, before.episodes[k].guid) = before.episodes[k]

\* C2's case: the feed has another title for a guid that is cleaned and tagged
C2_Witness ==
    /\ Completed("ingest")
    /\ \E k \in 1..Len(feed.items), j \in 1..Len(before.episodes) :
          /\ ~GuidUnusable(feed.items[k].guid)
          /\ Strip(Get(Get(feed.items[k].guid))) = before.episodes[j].guid
          /\ TextOrEmpty(feed.items[k].title, "") # before.episodes[j].title
          /\ ~IsNone(before.episodes[j].cleaned_description)
          /\ ~TagsIsNone(before.episodes[j].tags)

\* a guid text an entry can be identified by: present, and not empty once stripped
UsableGuid(e) == ~GuidUnusable(e) /\ Strip(Get(Get(e))) # << >>

\* the guids of the feed entries that carry a usable guid
FeedGuids(items) ==
    {Strip(Get(Get(items[k].guid))) : k \in {j \in 1..Len(items) : UsableGuid(items[j].guid)}}

\* C3: after an ingest run the guids of the store are the guids it had before
\* and the guids of the feed entries that carry a usable guid, and every new
\* episode has no cleaned_description, tags, cleaned_at or tagged_at.
C3_IngestAddsFeedGuids ==
    Completed("ingest") =>
        /\ Guids(file.episodes) = Guids(before.episodes) \cup FeedGuids(feed.items)
        /\ \A k \in 1..Len(file.episodes) :
              ~HasGuid(before.episodes, file.episodes[k].guid) =>
                  /\ IsNone(file.episodes[k].cleaned_description)
                  /\ file.episodes[k].tags = NullTags
                  /\ IsNone(file.episodes[k].cleaned_at)
                  /\ IsNone(file.episodes[k].tagged_at)


-----------------------------------------------------------------------------
(* Properties of the store and of the batch executor *)

\* tags that are present and pass validate_episode_tags without an error
TagsValid(t, tax) == ~ValidateRaises(t, tax) /\ validate_episode_tags(t, tax) = << >>

\* C6: in every persisted state of the store the tags of each episode are
\* absent or wholly valid against the taxonomy; the tagging stage never stores
\* a reply that is not wholly valid.
C6_StoredTagsValid ==
    file.ok =>
        \A k \in 1..Len(file.episodes) :
            TagsIsNone(file.episodes[k].tags) \/ TagsValid(file.episodes[k].tags, taxonomy)

\* the coordinator of a clean or tag run takes the outcome of a task
TakesOutcome ==
    /\ cmd \in {"clean", "tag"}
    /\ pc = "collect"
    /\ results # << >>
    /\ results' # results
    /\ status' # "interrupted"

\* the enrichment a stage has applied to an episode
Enrichment(e) == <<e.cleaned_description, e.cleaned_at, e.tags, e.tagged_at>>

\* the task whose outcome the coordinator takes next has failed
FailedOutcome == Head(results).raised \/ Head(results).error

\* the other episodes of the batch of the task whose outcome is taken next
Siblings == SeqToSet(Batch(todo, done)) \ {Head(results).guid}

\* C7: batch isolation.  When the coordinator takes the outcome of a failed
\* task of a batch with other episodes, the run goes on towards the save of
\* the batch, and what is applied for the other episodes stays in the store
\* the run will persist: a failing task neither cancels nor discards its
\* siblings.
C7_BatchIsolation ==
    [][(TakesOutcome /\ FailedOutcome /\ Siblings # {}) =>
          /\ pc' \in {"collect", "save"}
          /\ \A g \in Siblings :
                /\ HasGuid(episodes', g)
                /\ Enrichment(Episode(episodes', g)) = Enrichment(Episode(episodes, g))
      ]_vars

\* C8: batches run strictly one after the other.  While the tasks of a batch
\* are submitted or collected, state.json is a complete document that holds,
\* for every episode of the earlier batches of the run, the record the run has
\* in memory: the snapshot of batch k is persisted before batch k+1 starts.
C8_BatchesInTurn ==
    (cmd \in {"clean", "tag"} /\ pc \in {"submit", "collect"}) =>
        /\ file.ok
        /\ \A j \in 1..done :
              /\ HasGuid(file.episodes, todo[j])
              /\ Episode(file.episodes, todo[j]) = Episode(episodes, todo[j])

\* C8's case: a task of the second batch runs and the first batch changed the store
C8_Witness ==
    /\ cmd \in {"clean", "tag"}
    /\ pc = "collect"
    /\ done > 0
    /\ tasks # {}
    /\ \E j \in 1..done :
          Enrichment(Episode(episodes, todo[j])) # Enrichment(Episode(before.episodes, todo[j]))

\* C9: when a clean or tag run is interrupted, state.json still holds the
\* results of every batch of the run whose save had completed.
C9_InterruptKeepsBatches ==
    [][(cmd \in {"clean", "tag"} /\ pc # "idle" /\ status' = "interrupted") =>
          \A j \in 1..done :
              /\ file'.ok
              /\ HasGuid(file'.episodes, todo[j])
              /\ Episode(file'.episodes, todo[j]) = Episode(episodes, todo[j])
      ]_vars

\* C10: save_state is atomic.  Whenever no command runs, and so also after an
\* interruption inside save_state, state.json is a complete document, never a
\* truncated or partly written one.
C10_SaveAtomic == pc = "idle" => file.ok


-----------------------------------------------------------------------------
(* Properties of fix *)

\* C4: fix is idempotent.  When fix has run to its end and is run again at
\* once, the store it persists is the store the first pass left and it records
\* no correction for any episode.
C4_FixIdempotent ==
    (Completed("fix") /\ repeat) => (file = before /\ fixes = << >> /\ count = 0)

\* C4's case: a second pass over tags that the first pass corrected and kept
C4_Witness ==
    /\ Completed("fix")
    /\ repeat
    /\ \E k \in 1..Len(file.episodes) :
          /\ file.episodes[k].tags.k = "obj"
          /\ file.episodes[k].tags.Format = List(<<Str("Standalone Episodes")>>)
          /\ file.episodes[k].tags.episode_number.k = "int"

\* C5: after every completed fix pass each episode of the store whose tags are
\* not absent passes validate_episode_tags with no error.
C5_ValidAfterFix ==
    Completed("fix") =>
        \A k \in 1..Len(file.episodes) :
            TagsIsNone(file.episodes[k].tags) \/ TagsValid(file.episodes[k].tags, taxonomy)

\* C5's case: a pass that corrected the tags of an episode and kept them
C5_Witness ==
    /\ Completed("fix")
    /\ \E k \in 1..Len(file.episodes) :
          /\ file.episodes[k].tags.k = "obj"
          /\ file.episodes[k].tags # before.episodes[k].tags


-----------------------------------------------------------------------------
(* Properties of the worker pool *)

\* C11: at every moment of a clean or tag run the tasks in flight are at most
\* the batch width (10 in the source, BatchWidth here) and all of them belong
\* to the batch the run is at.
C11_TasksWithinBatch ==
    /\ Cardinality(tasks) <= BatchWidth
    /\ tasks \subseteq SeqToSet(Batch(todo, done))

\* C11's case: a full batch is in flight and the run has more episodes than one batch
C11_Witness ==
    /\ cmd \in {"clean", "tag"}
    /\ Cardinality(tasks) = BatchWidth
    /\ Len(todo) > BatchWidth


\* a worker task of the batch in flight runs to its end
WorkerStep == pc = "collect" /\ pc' = "collect" /\ Len(results') > Len(results)

\* the coordinator applies the outcome of a task and goes on
CoordinatorStep ==
    pc = "collect" /\ pc' \in {"collect", "save"} /\ Len(results') < Len(results)

\* C12: during a clean or tag run only the coordinator writes the store in
\* memory.  A worker task leaves every episode as it is, and the coordinator
\* changes nothing but the episode whose result it applies.
C12_SingleWriter ==
    [][(cmd \in {"clean", "tag"}) =>
          /\ WorkerStep => episodes' = episodes
          /\ CoordinatorStep =>
                /\ Len(episodes') = Len(episodes)
                /\ \A k \in 1..Len(episodes) :
                      episodes[k].guid # Head(results).guid => episodes'[k] = episodes[k]
      ]_vars

\* C12's case: the coordinator has applied a result and a worker has handed in another
C12_Witness ==
    /\ cmd \in {"clean", "tag"}
    /\ pc = "collect"
    /\ count > 0
    /\ results # << >>
    /\ Len(episodes) > 1


-----------------------------------------------------------------------------
(* Properties of failure handling in the stages *)

\* C13: in the tagging stage an episode whose model call fails (exception,
\* timeout, empty reply) or whose reply is not JSON has, once its outcome is
\* applied, no tags and no tagged_at, and is eligible for the next tag run.
C13_TagFailureLeavesAbsent ==
    [][(cmd = "tag" /\ CoordinatorStep /\ Head(results).error) =>
          LET e == Episode(episodes', Head(results).guid)
          IN  /\ TagsIsNone(e.tags)
              /\ IsNone(e.tagged_at)
              /\ NeedsTag(e)
      ]_vars


\* a parsed reply of the expected shape: an object whose Format, Theme and
\* Track are lists of strings and whose episode_number is an integer or null
SchemaOk(t) ==
    /\ t.k = "obj"
    /\ \A i \in 1..Len(Categories) :
          LET v == Cat(t, Categories[i])
          IN  v.k = "list" /\ \A j \in 1..Len(v.items) : v.items[j].k = "str"
    /\ t.episode_number.k \in {"int", "null"}

\* C14: a tagging reply that is JSON but not of the expected shape is treated
\* as a failed call: when its outcome is applied the episode's tags stay
\* absent and it is not counted as tagged; and no validate or fix run crashes
\* on a store that it can read.
C14_SchemaViolationIsFailure ==
    /\ [][(/\ cmd = "tag"
           /\ CoordinatorStep
           /\ ~Head(results).error
           /\ ~SchemaOk(Head(results).tags)) =>
              /\ TagsIsNone(Episode(episodes', Head(results).guid).tags)
              /\ count' = count
         ]_vars
    /\ []((pc = "idle" /\ cmd \in {"validate", "fix"} /\ status = "crashed") => ~before.ok)


\* C15: in the cleaning stage an episode whose model call fails (a timeout, an
\* exception of the call) has, once its outcome is applied, no
\* cleaned_description and is eligible for the next clean run.
C15_CleanFailureLeavesAbsent ==
    [][(cmd = "clean" /\ CoordinatorStep /\ Head(results).error) =>
          LET e == Episode(episodes', Head(results).guid)
          IN  /\ IsNone(e.cleaned_description)
              /\ NeedsClean(e)
      ]_vars


\* a clean run that found no OPENAI_API_KEY: the only run of clean that ends
\* in sys.exit
CleanWithoutModel == pc = "idle" /\ cmd = "clean" /\ status = "exit"

\* C16: with no language model configured a clean run still sets the
\* cleaned_description of every eligible episode to its description with the
\* markup stripped, the entities decoded and the whitespace normalised.
C16_CleanWithoutModelStrips ==
    CleanWithoutModel =>
        \A k \in 1..Len(before.episodes) :
            LET e == before.episodes[k]
            IN  (NeedsClean(e) /\ ~IsNone(e.description)) =>
                    Episode(file.episodes, e.guid).cleaned_description
                        = Some(BasicClean(Get(e.description)))


-----------------------------------------------------------------------------
(* Properties of the validator, of fix and of export *)

\* a fully valid assignment, in the words of the claim: an object with all
\* four keys, each category a non-empty list of members of the taxonomy set,
\* episode_number an integer (to Python, so a bool too) or null
FullyValid(t, tax) ==
    /\ t.k = "obj"
    /\ \A i \in 1..Len(Categories) :
          LET v == Cat(t, Categories[i])
          IN  /\ v.k = "list"
              /\ v.items # << >>
              /\ \A j \in 1..Len(v.items) :
                    v.items[j].k = "str" /\ v.items[j].s \in Allowed(tax, Categories[i])
    /\ t.episode_number.k \in {"int", "bool", "null"}

\* C17: validate_episode_tags(tags, taxonomy) raises for no input, and the
\* list it returns is empty if and only if the assignment is fully valid.
C17_ValidatorTotalAndExact ==
    file.ok =>
        \A k \in 1..Len(file.episodes) :
            LET t == file.episodes[k].tags
            IN  Tagged(file.episodes[k]) =>
                    /\ ~ValidateRaises(t, taxonomy)
                    /\ validate_episode_tags(t, taxonomy) = << >> <=> FullyValid(t, taxonomy)


\* tags that still have violations after the correction steps of fix
Irreparable(t, tax) == validate_episode_tags(FixSteps(t, tax).t, tax) # << >>

\* C18: when the tags of an episode still have violations after the correction
\* steps, a completed fix pass leaves the episode in the store with its tags
\* and its tagged_at absent and every other field as it was, and the episode is
\* eligible for the next tag run.
C18_IrreparableTagsReset ==
    Completed("fix") =>
        /\ Len(file.episodes) = Len(before.episodes)
        /\ \A k \in 1..Len(before.episodes) :
              LET b == before.episodes[k]
                  e == file.episodes[k]
              IN  (Tagged(b) /\ Irreparable(b.tags, taxonomy)) =>
                      /\ e = [b EXCEPT !.tags = e.tags, !.tagged_at = None]
                      /\ TagsIsNone(e.tags)
                      /\ NeedsTag(e)

\* C18's case: a completed pass over an episode whose Theme the steps left empty
C18_Witness ==
    /\ Completed("fix")
    /\ \E k \in 1..Len(before.episodes) :
          /\ Tagged(before.episodes[k])
          /\ ~IsNone(before.episodes[k].tagged_at)
          /\ FixSteps(before.episodes[k].tags, taxonomy).t.Theme = List(<< >>)
          /\ TagsIsNone(file.episodes[k].tags)


\* a command has returned or raised; it was not killed from outside
Returned == pc = "idle" /\ status \in {"done", "exit", "crashed"}

\* C19: no command removes an episode record.  When a command has ended, the
\* guids of state.json are at least those it had when the command started, and
\* they are exactly those unless the command is ingest.
C19_GuidsNeverShrink ==
    Returned =>
        /\ Guids(before.episodes) \subseteq Guids(file.episodes)
        /\ cmd # "ingest" => Guids(file.episodes) = Guids(before.episodes)

\* C19's case: fix has reset the tags of an episode and the store has several episodes
C19_Witness ==
    /\ Completed("fix")
    /\ Len(file.episodes) > 1
    /\ \E k \in 1..Len(before.episodes) :
          Tagged(before.episodes[k]) /\ ~Tagged(file.episodes[k])


\* C20: a completed export writes exactly one record for each episode of the
\* store whose tags are not absent and none for the others, and each record
\* has the guid, title, published_date, audio_url, tags and
\* cleaned_description of its episode.
C20_ExportSelectsTagged ==
    Completed("export") =>
        /\ \A k \in 1..Len(file.episodes) :
              LET e == file.episodes[k]
                  at == {j \in 1..Len(exported) : exported[j].guid = e.guid}
              IN  IF TagsIsNone(e.tags) THEN at = {}
                  ELSE /\ Cardinality(at) = 1
                       /\ \A j \in at :
                             /\ exported[j].title = e.title
                             /\ exported[j].published_date = e.published_date
                             /\ exported[j].audio_url = e.audio_url
                             /\ exported[j].tags = e.tags
                             /\ exported[j].cleaned_description = e.cleaned_description
        /\ \A j \in 1..Len(exported) : HasGuid(file.episodes, exported[j].guid)

\* C20's case: an export of a store with two tagged episodes and one whose tags
\* fix has removed
C20_Witness ==
    /\ Completed("export")
    /\ Len(exported) = 2
    /\ \E k \in 1..Len(file.episodes) : file.episodes[k].tags = AbsentTags


-----------------------------------------------------------------------------
(* The transcription specification: runs of transcribe.py's main() over an  *)
(* export file that export() can have written                               *)

ExportGuids == {"a", "b", "c"}

\* the published_date strings of the export files in the order of Python's
\* str comparison: "" < "F..." < "M..." < "T..."
ExportDates ==
    <<"", "Fri, 01 Mar 2024 00:00:00 +0000", "Mon, 01 Jan 2024 00:00:00 +0000",
      "Thu, 01 Feb 2024 00:00:00 +0000">>

\* an entry of the export file, with the rank of its published_date string
ExportEntries ==
    [guid : ExportGuids,
     published_date : 1..Len(ExportDates),
     audio_url : {None, Some(""), Some("http://x/a.mp3")}]

\* the sequences export() can write: an episode once, the published_date
\* strings descending
Descending ==
    {<< >>}
    \cup {<<x>> : x \in ExportEntries}
    \cup {s \in ExportEntries \X ExportEntries :
             s[1].guid # s[2].guid /\ s[1].published_date >= s[2].published_date}
    \cup {s \in ExportEntries \X ExportEntries \X ExportEntries :
             /\ s[1].guid = "a" /\ s[2].guid = "b" /\ s[3].guid = "c"
             /\ s[1].published_date >= s[2].published_date
             /\ s[2].published_date >= s[3].published_date}

ExportFiles ==
    {[k \in 1..Len(s) |-> [s[k] EXCEPT !.published_date = Some(ExportDates[@])]] :
        s \in Descending}

InitTranscribe ==
    /\ file = EmptyFile
    /\ taxonomy = DefaultTaxonomy
    /\ now = 1
    /\ pc = "idle"
    /\ cmd = "none"
    /\ status = "none"
    /\ episodes = << >>
    /\ count = 0
    /\ todo = << >>
    /\ done = 0
    /\ tasks = {}
    /\ results = << >>
    /\ fixes = << >>
    /\ exported = << >>
    /\ InitWeb
    /\ before = EmptyFile
    /\ feed = NoFeed
    /\ repeat = FALSE
    /\ prompts = {}
    /\ export_file \in ExportFiles
    /\ processed_file = None
    /\ unprocessed = << >>
    /\ episode_positions = << >>
    /\ main = NoRun
    /\ attempts = {}

NextTranscribe ==
    \/ \E ready \in BOOLEAN : Main(ready)
    \/ \E outcome \in Outcomes : TranscribeEpisode(outcome)
    \/ MainInterrupted

SpecTranscribe == InitTranscribe /\ [][NextTranscribe]_vars

-----------------------------------------------------------------------------
(* Properties of export and validate *)

\* the day a pubDate text of the model names, as the number yyyymmdd
PublishedAt(d) ==
    IF d = "Mon, 01 Jan 2024 00:00:00 +0000" THEN 20240101
    ELSE IF d = "Fri, 01 Mar 2024 00:00:00 +0000" THEN 20240301
    ELSE 0

\* a published_date that holds the text of a pubDate naming a day
IsDated(rec) == ~IsNone(rec.published_date) /\ PublishedAt(Get(rec.published_date)) # 0

\* C21: the exported array is ordered newest first: of two exported episodes
\* the one published later in time comes earlier in the array, for the
\* published_date texts ingest stores from the feed.
C21_ExportNewestFirst ==
    Completed("export") =>
        \A i \in 1..Len(exported), j \in 1..Len(exported) :
            (i < j /\ IsDated(exported[i]) /\ IsDated(exported[j])) =>
                PublishedAt(Get(exported[i].published_date))
                    >= PublishedAt(Get(exported[j].published_date))


\* C22: export and validate only read the store: when either has ended,
\* state.json, and so every field of every episode, is as it was when the
\* command started.
C22_ExportValidateReadOnly ==
    (pc = "idle" /\ cmd \in {"export", "validate"}) => file = before

\* C22's case: an export that wrote records of a store that also has an
\* episode without tags
C22_Witness ==
    /\ Completed("export")
    /\ exported # << >>
    /\ \E k \in 1..Len(file.episodes) : ~Tagged(file.episodes[k])


-----------------------------------------------------------------------------
(* Properties of configuration failures and of the runs of the stages *)

\* C23: a configuration failure (no RSS_FEED_URL for ingest, no
\* OPENAI_API_KEY for clean or tag) ends the command in sys.exit straight from
\* its start: no task was submitted and state.json is not written.
C23_ConfigFailureWritesNothing ==
    [][status' = "exit" =>
          /\ pc = "idle"
          /\ pc' = "idle"
          /\ tasks' = {}
          /\ results' = << >>
          /\ file' = file
      ]_vars

\* C23's case: tag found no key while the store has an episode waiting for tags
C23_Witness ==
    /\ pc = "idle"
    /\ cmd = "tag"
    /\ status = "exit"
    /\ file = before
    /\ ToTag(file.episodes) # << >>


\* a clean or tag run is in its batch loop
InBatchLoop == cmd \in {"clean", "tag"} /\ pc \in {"submit", "collect", "save", "write"}

\* C24: per-episode failures never abort a run.  A clean or tag run that has
\* entered its batch loop is not ended by an exception, whatever calls fail:
\* unless it is killed from outside it goes on, batch by batch, until it ends
\* with its last save, and then it has gone through every eligible episode.
C24_FailuresNeverAbort ==
    [][(InBatchLoop /\ status' # "interrupted") =>
          /\ status' # "crashed"
          /\ pc' = "idle" => (pc = "write" /\ done + BatchWidth >= Len(todo))
      ]_vars


\* C25: feed entries with no usable guid (no guid element, empty text, only
\* whitespace) are skipped: every record an ingest run has added has the guid
\* of a feed entry with a usable guid, and the run is not aborted by them.
C25_UnusableGuidSkipped ==
    /\ Completed("ingest") =>
          \A k \in 1..Len(file.episodes) :
              ~HasGuid(before.episodes, file.episodes[k].guid) =>
                  file.episodes[k].guid \in FeedGuids(feed.items)
    /\ (pc = "idle" /\ cmd = "ingest" /\ status = "crashed") =>
          (feed.status = "error" \/ ~before.ok)


-----------------------------------------------------------------------------
(* Properties of the search service *)

\* the index is not loaded: there is no SearchAPI object or it is not ready
NotLoaded == IsNone(search_api) \/ ~Get(search_api).ready

\* a request is answered
Answered == <<request, response, called>>' # <<request, response, called>>

\* C26: when the index is not loaded POST /search never calls the retriever;
\* a valid request is then answered 200 with its query and no results by an
\* application in test mode and 503 by any other; /health always answers 200
\* with index_loaded equal to the ready flag.
C26_NotLoadedNeverSearches ==
    [][Answered =>
          /\ (response'.endpoint = "search" /\ NotLoaded) =>
                /\ ~called'
                /\ ValidRequest(request'.req) =>
                      IF request'.app
                      THEN response' = Answer("search", 200, request'.req.query, << >>, FALSE)
                      ELSE response'.code = 503
          /\ response'.endpoint = "health" =>
                /\ response'.code = 200
                /\ response'.index_loaded = (~IsNone(search_api) /\ Get(search_api).ready)
      ]_vars

\* C26's case: a valid search was answered 503 by the application outside test
\* mode after an application in test mode replaced the loaded index
C26_Witness ==
    /\ apps = {TRUE, FALSE}
    /\ NotLoaded
    /\ ~request.app
    /\ ValidRequest(request.req)
    /\ response.endpoint = "search"
    /\ response.code = 503
    /\ ~called


\* start_chunk <= c <= end_chunk
Contains(file_range, c) == file_range.start_chunk <= c /\ c <= file_range.end_chunk

\* the positions of the ranges that contain c
Containing(c, file_ranges) == {k \in 1..Len(file_ranges) : Contains(file_ranges[k], c)}

\* no chunk id lies in two ranges
NonOverlapping(file_ranges) ==
    \A i, j \in 1..Len(file_ranges) :
        i # j => \A c \in Chunks : ~(Contains(file_ranges[i], c) /\ Contains(file_ranges[j], c))

\* C27: map_chunk_to_podcast(c, ranges) is the file of the first range that
\* contains c, bounds inclusive, and None when no range contains c; for
\* non-overlapping ranges build_chunk_mapping(ranges) has exactly the chunk ids
\* that map_chunk_to_podcast maps as keys, with the same file.
C27_MappingAgrees ==
    LET file_ranges == parse_metadata_file_ranges(metadata)
        mapping == build_chunk_mapping(file_ranges)
    IN  /\ \A c \in Chunks :
              LET at == Containing(c, file_ranges)
              IN  map_chunk_to_podcast(c, file_ranges) =
                      IF at = {} THEN None
                      ELSE Some(file_ranges[CHOOSE k \in at : \A l \in at : k <= l].file)
        /\ NonOverlapping(file_ranges) =>
              /\ DOMAIN mapping = {c \in Chunks : ~IsNone(map_chunk_to_podcast(c, file_ranges))}
              /\ \A c \in DOMAIN mapping :
                    mapping[c] = Get(map_chunk_to_podcast(c, file_ranges))
              /\ (~IsNone(search_api) /\ Get(search_api).ready) =>
                    Get(search_api).chunk_mapping = mapping

\* C27's case: an index was loaded whose metadata has two disjoint ranges of
\* different files, one of them of more than one chunk
C27_Witness ==
    /\ ~IsNone(search_api)
    /\ Get(search_api).ready
    /\ LET file_ranges == parse_metadata_file_ranges(metadata)
       IN  /\ Len(file_ranges) = 2
           /\ NonOverlapping(file_ranges)
           /\ file_ranges[1].file # file_ranges[2].file
           /\ file_ranges[1].start_chunk < file_ranges[1].end_chunk
           /\ file_ranges[2].start_chunk = file_ranges[2].end_chunk
           /\ DOMAIN Get(search_api).chunk_mapping = 0..MaxChunk


-----------------------------------------------------------------------------
(* Properties of persistence and eligibility in the stages *)

\* a clean or tag run is inside its batch loop
InStage == cmd \in {"clean", "tag"} /\ pc \in {"submit", "collect", "save", "write"}

\* the outcome of every task of the batch the run is at has been applied
BatchApplied ==
    /\ tasks = {}
    /\ results = << >>
    /\ cmd = "clean" =>
          \A g \in SeqToSet(Batch(todo, done)) :
              ~IsNone(Episode(episodes, g).cleaned_description)

\* C28: in a clean or tag run the store is persisted exactly once per batch,
\* and only after every task of the batch has completed and its outcome has
\* been applied to the store in memory.  state.json changes only inside
\* save_state; save_state starts only when the last outcome of the batch is
\* applied; the run goes on to the next batch or returns only by completing
\* that one write of the whole snapshot.
C28_OneSavePerBatch ==
    /\ [][InStage =>
             /\ file' # file => pc \in {"save", "write"}
             /\ (pc # "save" /\ pc' = "save") =>
                   pc = "collect" /\ tasks' = {} /\ results' = << >>
             /\ pc = "save" => pc' \in {"write", "idle"}
             /\ (pc' = "submit" \/ status' = "done") =>
                   /\ pc = "write"
                   /\ file' = [ok |-> TRUE, episodes |-> episodes]
             /\ pc' = "submit" => done' = done + BatchWidth
       ]_vars
    /\ [](InStage /\ pc \in {"save", "write"} => BatchApplied)

\* C28's case: the snapshot of the second batch of a run is being written
C28_Witness ==
    /\ InStage
    /\ pc = "write"
    /\ done > 0
    /\ count > done
    /\ file = PartialFile


\* the store a clean or tag run works on and the store it has persisted
Stores == {episodes} \cup (IF file.ok THEN {file.episodes} ELSE {})

\* C29: stages never redo finished work.  A clean run submits tasks only for
\* episodes whose cleaned_description was absent when the run loaded the store
\* and leaves cleaned_description and cleaned_at of every other episode as
\* they were; a tag run submits tasks only for episodes whose tags were absent
\* and whose cleaned_description was present and leaves tags and tagged_at of
\* every other episode as they were; a clean run changes no tags or tagged_at
\* and a tag run no cleaned_description or cleaned_at.
C29_NoFinishedWorkRedone ==
    InStage =>
        /\ \A g \in SeqToSet(todo) \cup tasks :
              /\ HasGuid(before.episodes, g)
              /\ IF cmd = "clean" THEN NeedsClean(Episode(before.episodes, g))
                                  ELSE NeedsTag(Episode(before.episodes, g))
        /\ \A eps \in Stores :
              /\ Len(eps) = Len(before.episodes)
              /\ \A k \in 1..Len(eps) :
                    LET old == before.episodes[k]
                        new == eps[k]
                    IN  /\ new.guid = old.guid
                        /\ (cmd = "clean" /\ ~NeedsClean(old)) =>
                              /\ new.cleaned_description = old.cleaned_description
                              /\ new.cleaned_at = old.cleaned_at
                        /\ (cmd = "tag" /\ ~NeedsTag(old)) =>
                              /\ new.tags = old.tags
                              /\ new.tagged_at = old.tagged_at
                        /\ cmd = "clean" =>
                              /\ new.tags = old.tags
                              /\ new.tagged_at = old.tagged_at
                        /\ cmd = "tag" =>
                              /\ new.cleaned_description = old.cleaned_description
                              /\ new.cleaned_at = old.cleaned_at

\* C29's case: a tag run has applied tags to an episode while the store holds
\* an episode that was not eligible (tagged by an earlier run, or not cleaned)
C29_Witness ==
    /\ InStage
    /\ cmd = "tag"
    /\ count > 0
    /\ \E k \in 1..Len(before.episodes) : ~NeedsTag(before.episodes[k])
    /\ \E k \in 1..Len(before.episodes) :
          /\ NeedsTag(before.episodes[k])
          /\ ~TagsIsNone(episodes[k].tags)

-----------------------------------------------------------------------------
(* Properties of the validator's report *)

\* the rules of the validator that a category of an assignment violates
CategoryViolations(t, tax, c) ==
    LET v == Cat(t, c)
    IN  {Err("must be a list", c) : x \in {1} \cap (IF v.k \notin {"missing", "list"} THEN {1} ELSE {})}
        \cup {Err("invalid tags", c) : x \in {j \in 1..(IF v.k = "list" THEN Len(v.items) ELSE 0) :
                                                ~InTaxonomy(v.items[j], Allowed(tax, c))}}
        \cup {Err("cannot be empty", c) : x \in {1} \cap (IF v.k = "list" /\ v.items = << >> THEN {1} ELSE {})}

\* the rules an assignment violates: missing keys, and for each category and
\* for episode_number the rules of its value
Violations(t, tax) ==
    {Err("missing fields", "") : x \in {c \in {"Format", "Theme", "Track"} : Cat(t, c).k = "missing"}
                                      \cup (IF t.episode_number.k = "missing" THEN {"episode_number"} ELSE {})}
    \cup CategoryViolations(t, tax, "Format")
    \cup CategoryViolations(t, tax, "Theme")
    \cup CategoryViolations(t, tax, "Track")
    \cup {Err("must be int or null", "episode_number") :
             x \in {1} \cap (IF t.episode_number.k \notin {"missing", "null", "int", "bool"}
                             THEN {1} ELSE {})}

\* C30: validate_episode_tags reports every violation independently: for any
\* assignment the list it returns has exactly one entry for each violated rule
\* among missing keys, a non-list category, unknown entries in a category, an
\* empty category and an episode_number that is neither an integer nor null,
\* over all three categories.
C30_EveryViolationReported ==
    file.ok =>
        \A k \in 1..Len(file.episodes) :
            LET t == file.episodes[k].tags
            IN  Tagged(file.episodes[k]) =>
                    /\ ~ValidateRaises(t, taxonomy)
                    /\ SeqToSet(validate_episode_tags(t, taxonomy)) = Violations(t, taxonomy)
                    /\ Len(validate_episode_tags(t, taxonomy)) = Cardinality(Violations(t, taxonomy))


-----------------------------------------------------------------------------
(* Properties of the correction steps of fix *)

\* fix() has run its loop over the store it loaded and is about to save
FixApplied == cmd = "fix" /\ pc = "save"

\* the entries of a sequence that are members of a set of permitted tags, in
\* their order
Members(items, allowed) ==
    LET IsMember(x) == x.k = "str" /\ x.s \in allowed IN SelectSeq(items, IsMember)

\* C31: the correction steps of fix filter each of the three category
\* sequences to the members of the taxonomy: after the steps and before the
\* re-validation a category that was a sequence holds exactly its original
\* entries that are members of the corresponding taxonomy set, in their
\* original order, and no entry that the original assignment did not have.
C31_RepairFiltersCategories ==
    FixApplied =>
        \A k \in 1..Len(before.episodes) :
            LET b == before.episodes[k]
            IN  Tagged(b) =>
                    \A i \in 1..Len(Categories) :
                        LET c == Categories[i]
                            v == Cat(b.tags, c)
                        IN  v.k = "list" =>
                                Cat(FixSteps(b.tags, taxonomy).t, c)
                                    = List(Members(v.items, Allowed(taxonomy, c)))


\* C32: the correction steps coerce a scalar found where a category sequence
\* is expected, in the same way for Format, Theme and Track: a string becomes
\* the one-element sequence of that string (which the filter of the sequence
\* may then empty) and any other scalar becomes the empty sequence.
C32_RepairCoercesScalars ==
    FixApplied =>
        \A k \in 1..Len(before.episodes) :
            LET b == before.episodes[k]
            IN  Tagged(b) =>
                    \A i \in 1..Len(Categories) :
                        LET c     == Categories[i]
                            v     == Cat(b.tags, c)
                            after == Cat(FixSteps(b.tags, taxonomy).t, c)
                        IN  /\ v.k = "str" =>
                                  after \in {List(v.items),
                                             List(Members(v.items, Allowed(taxonomy, c)))}
                            /\ v.k = "other" => after = List(<< >>)


-----------------------------------------------------------------------------
(* Properties of the count of ingest *)

\* the positions of the feed entries from which ingest reads the guid g
Occurrences(items, g) ==
    {j \in 1..Len(items) : ~GuidUnusable(items[j].guid) /\ Strip(Get(Get(items[j].guid))) = g}

\* the guids a run has added to the store
Added == Guids(file.episodes) \ Guids(before.episodes)

\* C33: the count ingest reports is the number of episode records the run has
\* added to the store; a guid that occurs several times in the feed is
\* inserted and counted once, with the fields of its first occurrence.
C33_IngestCountsAdded ==
    Completed("ingest") =>
        /\ count = Len(file.episodes) - Len(before.episodes)
        /\ count = Cardinality(Added)
        /\ \A g \in Added :
              LET at == Occurrences(feed.items, g)
                  e  == Episode(file.episodes, g)
              IN  /\ at # {}
                  /\ Cardinality({k \in 1..Len(file.episodes) : file.episodes[k].guid = g}) = 1
                  /\ e = NewEpisode(feed.items[CHOOSE j \in at : \A l \in at : j <= l],
                                    g, e.ingested_at)

\* C33's case: the run added a guid that the feed has twice, with different titles
C33_Witness ==
    /\ Completed("ingest")
    /\ count > 0
    /\ \E g \in Added :
          \E i, j \in Occurrences(feed.items, g) :
              i < j /\ feed.items[i].title # feed.items[j].title


-----------------------------------------------------------------------------
(* Properties of the taxonomy *)

\* C34: the taxonomy is immutable during a pipeline run: the prompts of all
\* the tagging tasks of one tag run are built from the same taxonomy, also
\* when taxonomy.json is replaced while the run is in progress.
C34_OneTaxonomyPerRun == cmd = "tag" => Cardinality(prompts) <= 1


-----------------------------------------------------------------------------
(* Invariants of the episode records *)

\* C35: in every reachable state of the store an episode has tags only if it
\* has a cleaned_description, so every exported record has a cleaned_description
\* that is not null.
C35_TagsImplyCleaned ==
    /\ \A eps \in Stores :
          \A k \in 1..Len(eps) : Tagged(eps[k]) => ~IsNone(eps[k].cleaned_description)
    /\ \A k \in 1..Len(exported) : ~IsNone(exported[k].cleaned_description)

\* C35's case: an export has written the record of a tagged episode while the
\* store holds an episode that was never cleaned
C35_Witness ==
    /\ Completed("export")
    /\ exported # << >>
    /\ \E k \in 1..Len(file.episodes) : IsNone(file.episodes[k].cleaned_description)


\* C36: in every reachable state of the store the stage timestamps agree with
\* the fields they describe: an episode has a tagged_at only if it has tags
\* and a cleaned_at only if it has a cleaned_description, also after a tagging
\* reply that parses to JSON null and after fix has deleted tags.
C36_TimestampsAgree ==
    \A eps \in Stores :
        \A k \in 1..Len(eps) :
            /\ ~IsNone(eps[k].tagged_at) => Tagged(eps[k])
            /\ ~IsNone(eps[k].cleaned_at) => ~IsNone(eps[k].cleaned_description)


-----------------------------------------------------------------------------
(* Properties of a repeated clean run *)

\* C37: a clean run that completes leaves no episode of the store with an
\* absent cleaned_description, whatever calls of the run failed; a clean run
\* started right after it finds nothing to clean: it never enters the batch
\* loop, submits no task and does not write state.json.
C37_CleanLeavesNothingToClean ==
    /\ Completed("clean") =>
          \A k \in 1..Len(file.episodes) : ~NeedsClean(file.episodes[k])
    /\ (cmd = "clean" /\ repeat) =>
          /\ pc = "idle"
          /\ status \in {"done", "exit"}
          /\ tasks = {}
          /\ file = before

\* C37's case: the second of two clean runs has returned, and the first stored
\* the fallback text of a failed call for an episode
C37_Witness ==
    /\ Completed("clean")
    /\ repeat
    /\ \E k \in 1..Len(file.episodes) :
          LET e == file.episodes[k]
          IN  /\ ~IsNone(e.description)
              /\ e.cleaned_description = Some(BasicClean(Get(e.description)))


-----------------------------------------------------------------------------
(* Properties of the transcription runner *)

\* the run of main() has loaded its episodes
Loaded == main.status \in {"running", "done", "interrupted"}

\* the guids of the transcribed list, in the order they were appended
Transcribed ==
    IF IsNone(processed_file) THEN << >>
    ELSE [k \in 1..Len(Get(processed_file)) |-> Get(processed_file)[k].guid]

\* the episodes load_episodes returned that the run has not come to: all of
\* them when main enters its loop
Waiting ==
    IF main.pc = "loop" THEN {unprocessed[k] : k \in main.i..Len(unprocessed)} ELSE {}

\* C38: in the transcription runner a guid is in the transcribed list of the
\* processed file only after a transcription of that episode succeeded, and
\* at most once; load_episodes returns no episode whose guid is in the list
\* and none without an audio_url; an episode that failed stays out of the
\* list, and the next run that loads its episodes is given it again with
\* the position number it had.
C38_OnlySuccessRecorded ==
    /\ \A k \in 1..Len(Transcribed) :
          /\ \E a \in attempts : a.guid = Transcribed[k] /\ a.ok
          /\ \A j \in 1..Len(Transcribed) : Transcribed[j] = Transcribed[k] => j = k
    /\ Loaded =>
          /\ \A k \in 1..Len(unprocessed) : HasAudio(unprocessed[k])
          /\ \A e \in Waiting : e.guid \notin ProcessedGuids(processed_file)
    /\ \A a \in attempts :
          /\ (~a.ok /\ a.run = main.run) => a.guid \notin ProcessedGuids(processed_file)
          /\ (~a.ok /\ a.run = main.run - 1 /\ Loaded) =>
                \E k \in 1..Len(unprocessed) :
                    /\ unprocessed[k].guid = a.guid
                    /\ PositionOf(episode_positions, a.guid) = a.number

\* a second run was given an episode again that failed in the first run, at
\* a position after an episode the first run transcribed, and the export
\* file has an episode without an audio_url
C38_Witness ==
    /\ main.run = 2 /\ Loaded
    /\ \E a \in attempts, b \in attempts :
          /\ a.run = 1 /\ ~a.ok /\ b.run = 1 /\ b.ok /\ b.number < a.number
          /\ \E k \in 1..Len(unprocessed) : unprocessed[k].guid = a.guid
          /\ b.guid \in ProcessedGuids(processed_file)
    /\ \E k \in 1..Len(export_file) : ~HasAudio(export_file[k])

=============================================================================
